---- MODULE Spec2Model ----
(***************************************************************************)
(* Stylus-Toolkit: the gas estimator (src/profiler/gas-profiler.ts), the   *)
(* gas comparator (src/profiler/comparator.ts) and the part of the profile *)
(* command (src/commands/profile.ts) that drives them.                     *)
(*                                                                         *)
(* JavaScript numbers that can be fractional (percentages, means) are      *)
(* modelled as exact rationals [n, d] in lowest terms with d > 0; numbers  *)
(* that the code only adds, subtracts and multiplies stay integers.        *)
(* An optional property (calls, executions) is <<>> when absent and <<v>>  *)
(* when present.  A Map is a sequence of entries with distinct names, in   *)
(* insertion order.                                                        *)
(***************************************************************************)
EXTENDS Integers, Sequences, FiniteSets, TLC

VARIABLES
  cmpA,            \* the candidate profile handed to compare (<<>> before a run's call)
  cmpB,            \* the baseline profile handed to compare (<<>> before a run's call)
  cmpOut,          \* <<>> before compare was called, <<ComparisonResult>> after
  pc,              \* profileCommand: the step it is at
  rustResult,      \* profileCommand: <<>> or <<CompilationResult>> of the Rust compiler
  solidityResult,  \* profileCommand: <<>> or <<CompilationResult>> of the Solidity compiler
  rustProfile,     \* profileCommand: <<>> or <<GasProfile>> of the candidate
  solidityProfile, \* profileCommand: <<>> or <<GasProfile>> of the baseline
  probe,           \* profileContract: where the running invocation is
  network,         \* profileContract: <<>> or <<name>> answered by getNetwork
  blockNumber,     \* profileContract: its local blockNumber
  deploymentGas,   \* profileContract: its local deploymentGas
  timer,           \* per invocation: the 5000 ms timer (unset, pending, fired)
  txSent,          \* per invocation: transactions handed to the signer
  timerHit,        \* per invocation: the timer fired while the probe was under way
  probeRejected,   \* per invocation: a probe query was rejected
  clock,           \* the system clock, in milliseconds
  cmpAgain,        \* <<>> or <<ComparisonResult>> of a second compare of cmpA, cmpB
  testCases,       \* profileContract's argument: <<>> (absent) or <<Map name -> inputs>>
  deployFailed,    \* per invocation: measureDeploymentGas caught a failure
  callLog,         \* per invocation: <<>> or <<what measureFunctionGas met>>
  archive,         \* the results directory: file name -> its JSON content
  saveLog,         \* the completed saves, oldest first
  opResult,        \* <<>> or <<outcome of the last load, delete, list or getLatest>>
  options,         \* the options the running command was called with (<<>> when none runs)
  env,             \* what the command finds around it (<<>> when none runs)
  outputs,         \* what the command wrote or sent, besides the results directory
  steps,           \* the steps of the command begun and ended so far, in order
  exitCode         \* <<>> while the process runs, <<code>> once it ended

cmpVars == <<cmpA, cmpB, cmpOut>>

cmdVars == <<pc, rustResult, solidityResult, rustProfile, solidityProfile>>

callVars == <<probe, network, blockNumber, deploymentGas>>

obsVars == <<timer, txSent, timerHit, probeRejected>>

measVars == <<testCases, deployFailed, callLog>>

storeVars == <<archive, saveLog, opResult>>

auxVars == <<clock, cmpAgain, measVars, storeVars>>

cliVars == <<options, env, outputs>>

vars == <<cmpA, cmpB, cmpOut, pc, rustResult, solidityResult, rustProfile,
          solidityProfile, probe, network, blockNumber, deploymentGas, timer,
          txSent, timerHit, probeRejected, clock, cmpAgain, testCases,
          deployFailed, callLog, archive, saveLog, opResult, options, env,
          outputs, steps, exitCode>>

----------------------------------------------------------------------------
(* Bounds of the model *)

\* Largest number of entries of a functionGas map handed to the comparator.
MaxFns == 2

\* Largest compiled binary, in bytes, a compiler of a run produces.
MaxBytes == 2

\* Last reading of the clock, in milliseconds after the first.
MaxClock == 1

\* Largest number of calls of ResultsStore.save.
MaxSaves == 2

\* Largest number of input lists a test-case entry holds for one function.
MaxCases == 2

\* language: 'rust' | 'solidity'
Languages == {"rust", "solidity"}

----------------------------------------------------------------------------
(* Exact arithmetic on JavaScript numbers *)

Abs(x) == IF x < 0 THEN -x ELSE x

RECURSIVE GCD(_, _)
GCD(a, b) == IF b = 0 THEN a ELSE GCD(b, a % b)

\* n / d for d > 0, in lowest terms.
RatNorm(n, d) ==
  LET g == GCD(Abs(n), d)
  IN  [n |-> n \div g, d |-> d \div g]

RatOfInt(i) == [n |-> i, d |-> 1]

RatZero == RatOfInt(0)

RatAdd(p, q) == RatNorm(p.n * q.d + q.n * p.d, p.d * q.d)

\* p / k for an integer k > 0.
RatDivInt(p, k) == RatNorm(p.n, p.d * k)

\* p * k for an integer k.
RatMulInt(p, k) == RatNorm(p.n * k, p.d)

----------------------------------------------------------------------------
(* Map<string, ...> as a sequence of entries keyed by .name *)

MapKeys(m) == {m[i].name : i \in 1..Len(m)}

MapHas(m, k) == \E i \in 1..Len(m) : m[i].name = k

MapGet(m, k) == m[CHOOSE i \in 1..Len(m) : m[i].name = k]

\* Map.prototype.set: replace in place when the key exists, append otherwise.
MapSet(m, e) ==
  IF MapHas(m, e.name)
  THEN [i \in 1..Len(m) |-> IF m[i].name = e.name THEN e ELSE m[i]]
  ELSE Append(m, e)

\* a || b on an optional number: absent and 0 are both falsy.
JsOr(opt, fallback) == IF opt # <<>> /\ opt[1] # 0 THEN opt[1] ELSE fallback

----------------------------------------------------------------------------
(* Strings that are compared, matched or sorted *)

\* A string whose order or prefixes matter is the sequence of its UTF-16 code
\* units; Chr names the units used.
Chr == [A |-> 65, B |-> 66, underscore |-> 95, dot |-> 46, digit0 |-> 48,
        j |-> 106, s |-> 115, o |-> 111, n |-> 110]

\* The contract names "A" and "AB".
NameA == <<Chr.A>>

NameAB == <<Chr.A, Chr.B>>

----------------------------------------------------------------------------
(* GasComparator *)

\* A mutation of calculateDeploymentSavings: the percentage is taken relative to
\* the candidate's gas instead of the baseline's.
calculateDeploymentSavings_rustBase(rustGas, solidityGas) ==
  LET absolute == solidityGas - rustGas
  IN  [absolute   |-> absolute,
       percentage |-> IF rustGas > 0
                      THEN RatNorm(absolute * 100, rustGas)
                      ELSE RatZero]

calculateDeploymentSavings(rustGas, solidityGas) ==
  LET absolute == solidityGas - rustGas
  IN  [absolute   |-> absolute,
       percentage |-> IF solidityGas > 0
                      THEN RatNorm(absolute * 100, solidityGas)
                      ELSE RatZero]

\* A mutation of functionSavingsStep: the guard tests the baseline's avgGas for
\* truthiness instead of the entry, so a category whose baseline avgGas is 0 is
\* dropped.
functionSavingsStep_truthyGas(savingsMap, rustData, solidityFunctions) ==
  IF MapHas(solidityFunctions, rustData.name)
       /\ MapGet(solidityFunctions, rustData.name).avgGas # 0
  THEN LET solidityData == MapGet(solidityFunctions, rustData.name)
           absolute     == solidityData.avgGas - rustData.avgGas
       IN  MapSet(savingsMap,
                  [name        |-> rustData.name,
                   absolute    |-> absolute,
                   percentage  |-> RatNorm(absolute * 100, solidityData.avgGas),
                   rustGas     |-> rustData.avgGas,
                   solidityGas |-> solidityData.avgGas])
  ELSE savingsMap

\* One iteration of the loop of calculateFunctionSavings.
functionSavingsStep(savingsMap, rustData, solidityFunctions) ==
  IF MapHas(solidityFunctions, rustData.name)
  THEN LET solidityData == MapGet(solidityFunctions, rustData.name)
           absolute     == solidityData.avgGas - rustData.avgGas
       IN  MapSet(savingsMap,
                  [name        |-> rustData.name,
                   absolute    |-> absolute,
                   percentage  |-> IF solidityData.avgGas > 0
                                   THEN RatNorm(absolute * 100, solidityData.avgGas)
                                   ELSE RatZero,
                   rustGas     |-> rustData.avgGas,
                   solidityGas |-> solidityData.avgGas])
  ELSE savingsMap

RECURSIVE functionSavingsLoop(_, _, _)
functionSavingsLoop(rustFunctions, solidityFunctions, n) ==
  IF n = 0
  THEN <<>>
  ELSE functionSavingsStep(functionSavingsLoop(rustFunctions, solidityFunctions, n - 1),
                           rustFunctions[n], solidityFunctions)

calculateFunctionSavings(rustFunctions, solidityFunctions) ==
  functionSavingsLoop(rustFunctions, solidityFunctions, Len(rustFunctions))

RECURSIVE SumAbsolute(_, _)
SumAbsolute(fs, n) == IF n = 0 THEN 0 ELSE SumAbsolute(fs, n - 1) + fs[n].absolute

RECURSIVE SumPercentage(_, _)
SumPercentage(fs, n) ==
  IF n = 0 THEN RatZero ELSE RatAdd(SumPercentage(fs, n - 1), fs[n].percentage)

\* A mutation of calculateTotalAvgSavings: the totals are returned without
\* being divided by the number of entries.
calculateTotalAvgSavings_noDivide(functionSavings) ==
  IF Len(functionSavings) = 0
  THEN [absolute |-> RatZero, percentage |-> RatZero]
  ELSE [absolute   |-> RatOfInt(SumAbsolute(functionSavings, Len(functionSavings))),
        percentage |-> SumPercentage(functionSavings, Len(functionSavings))]

calculateTotalAvgSavings(functionSavings) ==
  IF Len(functionSavings) = 0
  THEN [absolute |-> RatZero, percentage |-> RatZero]
  ELSE [absolute   |-> RatNorm(SumAbsolute(functionSavings, Len(functionSavings)),
                               Len(functionSavings)),
        percentage |-> RatDivInt(SumPercentage(functionSavings, Len(functionSavings)),
                                 Len(functionSavings))]

calculateSavings(candidate, baseline) ==
  LET functionSavings ==
        calculateFunctionSavings(candidate.functionGas, baseline.functionGas)
  IN  [deploymentSavings |-> calculateDeploymentSavings(candidate.deploymentGas,
                                                        baseline.deploymentGas),
       functionSavings   |-> functionSavings,
       totalAvgSavings   |-> calculateTotalAvgSavings(functionSavings)]

\* const callFrequency = 100
callFrequency == 100

\* data.calls || data.executions || callFrequency
callsUsed(data) == JsOr(data.calls, JsOr(data.executions, callFrequency))

\* A mutation of tcoLoop: the candidate's execution total is accumulated for
\* every category of the candidate, outside the test for a shared category.
RECURSIVE tcoLoop_everyCandidate(_, _, _)
tcoLoop_everyCandidate(rustFunctions, solidityFunctions, n) ==
  IF n = 0
  THEN [rustTotalExecution |-> 0, solidityTotalExecution |-> 0, functionCount |-> 0]
  ELSE LET acc      == tcoLoop_everyCandidate(rustFunctions, solidityFunctions, n - 1)
           rustData == rustFunctions[n]
           rustExec == acc.rustTotalExecution + rustData.avgGas * callsUsed(rustData)
       IN  IF MapHas(solidityFunctions, rustData.name)
           THEN LET solidityData == MapGet(solidityFunctions, rustData.name)
                IN  [rustTotalExecution     |-> rustExec,
                     solidityTotalExecution |->
                       acc.solidityTotalExecution
                         + solidityData.avgGas * callsUsed(solidityData),
                     functionCount          |-> acc.functionCount + 1]
           ELSE [acc EXCEPT !.rustTotalExecution = rustExec]

\* The loop of calculateTCO over the first n entries of the candidate's map:
\* the two execution totals and the number of shared categories.
RECURSIVE tcoLoop(_, _, _)
tcoLoop(rustFunctions, solidityFunctions, n) ==
  IF n = 0
  THEN [rustTotalExecution |-> 0, solidityTotalExecution |-> 0, functionCount |-> 0]
  ELSE LET acc      == tcoLoop(rustFunctions, solidityFunctions, n - 1)
           rustData == rustFunctions[n]
       IN  IF MapHas(solidityFunctions, rustData.name)
           THEN LET solidityData == MapGet(solidityFunctions, rustData.name)
                IN  [rustTotalExecution     |->
                       acc.rustTotalExecution + rustData.avgGas * callsUsed(rustData),
                     solidityTotalExecution |->
                       acc.solidityTotalExecution
                         + solidityData.avgGas * callsUsed(solidityData),
                     functionCount          |-> acc.functionCount + 1]
           ELSE acc

calculateTCO(candidate, baseline) ==
  LET acc         == tcoLoop(candidate.functionGas, baseline.functionGas,
                             Len(candidate.functionGas))
      rustTCO     == candidate.deploymentGas + acc.rustTotalExecution
      solidityTCO == baseline.deploymentGas + acc.solidityTotalExecution
      tcoAbsolute == solidityTCO - rustTCO
  IN  [rustTCO       |-> rustTCO,
       solidityTCO   |-> solidityTCO,
       tcoAbsolute   |-> tcoAbsolute,
       tcoPercentage |-> IF solidityTCO > 0
                         THEN RatNorm(tcoAbsolute * 100, solidityTCO)
                         ELSE RatZero,
       callFrequency |-> callFrequency,
       functionCount |-> acc.functionCount]

\* compare with a timestamp that does not come from the clock.
compare_noClock(candidate, baseline, now) ==
  [contractName    |-> candidate.contractName,
   timestamp       |-> 0,
   rustProfile     |-> candidate,
   solidityProfile |-> baseline,
   savings         |-> calculateSavings(candidate, baseline),
   tco             |-> calculateTCO(candidate, baseline)]

\* compare, the clock reading now: new Date().toISOString() is modelled by the
\* reading itself.
compare(candidate, baseline, now) ==
  [contractName    |-> candidate.contractName,
   timestamp       |-> now,
   rustProfile     |-> candidate,
   solidityProfile |-> baseline,
   savings         |-> calculateSavings(candidate, baseline),
   tco             |-> calculateTCO(candidate, baseline)]

----------------------------------------------------------------------------
(* The comparator applied to arbitrary pairs of profiles *)

\* Category names of the profiles handed to the comparator.
CmpNames == {"read", "write", "transfer"}

\* Entry payloads: a category without any count, an estimation-table entry
\* (avgGas, calls) and a measured entry (avgGas, executions).
CmpData ==
  { [avgGas |-> 0, calls |-> <<>>,    executions |-> <<>>],
    [avgGas |-> 5, calls |-> <<100>>, executions |-> <<>>],
    [avgGas |-> 6, calls |-> <<>>,    executions |-> <<3>>] }

CmpDeploymentGas == {0, 3, 8}

\* Every map of at most MaxFns entries with distinct names, in every order.
CmpMaps ==
  LET raw == UNION {[1..n -> CmpNames \X CmpData] : n \in 0..MaxFns}
      ok  == {s \in raw : \A i, j \in 1..Len(s) : i # j => s[i][1] # s[j][1]}
  IN  {[i \in 1..Len(s) |-> [name       |-> s[i][1],
                             avgGas     |-> s[i][2].avgGas,
                             calls      |-> s[i][2].calls,
                             executions |-> s[i][2].executions]] : s \in ok}

CmpProfile(language, gas, functionGas) ==
  [contractName  |-> NameA,
   language      |-> language,
   deploymentGas |-> gas,
   functionGas   |-> functionGas,
   network       |-> "unknown",
   blockNumber   |-> 0]

\* No run of profileCommand is under way.
RunIdle ==
  /\ pc = "idle"
  /\ rustResult = <<>>
  /\ solidityResult = <<>>
  /\ rustProfile = <<>>
  /\ solidityProfile = <<>>
  /\ probe = "idle"
  /\ network = <<>>
  /\ blockNumber = 0
  /\ deploymentGas = 0
  /\ timer = [l \in Languages |-> "unset"]
  /\ txSent = [l \in Languages |-> 0]
  /\ timerHit = [l \in Languages |-> FALSE]
  /\ probeRejected = [l \in Languages |-> FALSE]

\* No measurement was made: no test cases were handed over and nothing failed.
MeasIdle ==
  /\ testCases = <<>>
  /\ deployFailed = [l \in Languages |-> FALSE]
  /\ callLog = [l \in Languages |-> <<>>]

\* No command runs: nothing was asked, found, written, begun or ended.
CliIdle ==
  /\ options = <<>>
  /\ env = <<>>
  /\ outputs = {}
  /\ steps = <<>>
  /\ exitCode = <<>>

\* The results directory is empty and no operation of the store was called.
StoreIdle ==
  /\ archive = {}
  /\ saveLog = <<>>
  /\ opResult = <<>>

InitCmp ==
  /\ cmpA \in {CmpProfile("rust", g, m) : g \in CmpDeploymentGas, m \in CmpMaps}
  /\ cmpB \in {CmpProfile("solidity", g, m) : g \in CmpDeploymentGas, m \in CmpMaps}
  /\ cmpOut = <<>>
  /\ cmpAgain = <<>>
  /\ clock = 0
  /\ RunIdle
  /\ MeasIdle
  /\ StoreIdle
  /\ CliIdle

\* comparator.compare(cmpA, cmpB)
Compare ==
  /\ pc = "idle"
  /\ cmpOut = <<>>
  /\ cmpOut' = <<compare(cmpA, cmpB, clock)>>
  /\ UNCHANGED <<cliVars, steps, exitCode, auxVars, cmpA, cmpB, cmdVars, callVars, obsVars>>

NextCmp == Compare

SpecCmp == InitCmp /\ [][NextCmp]_vars

----------------------------------------------------------------------------
(* The comparator called twice on the same pair of profiles *)

\* The maps of at most one entry.
TwiceMaps == {m \in CmpMaps : Len(m) <= 1}

InitTwice ==
  /\ cmpA \in {CmpProfile("rust", g, m) : g \in CmpDeploymentGas, m \in TwiceMaps}
  /\ cmpB \in {CmpProfile("solidity", g, m) : g \in CmpDeploymentGas, m \in TwiceMaps}
  /\ cmpOut = <<>>
  /\ cmpAgain = <<>>
  /\ clock = 0
  /\ RunIdle
  /\ MeasIdle
  /\ StoreIdle
  /\ CliIdle

\* A millisecond passes.
Tick ==
  /\ pc = "idle"
  /\ clock < MaxClock
  /\ clock' = clock + 1
  /\ UNCHANGED <<cliVars, steps, exitCode, cmpVars, cmdVars, callVars, obsVars, cmpAgain, measVars, storeVars>>

\* comparator.compare(cmpA, cmpB), called a second time
CompareAgain ==
  /\ pc = "idle"
  /\ cmpOut # <<>>
  /\ cmpAgain = <<>>
  /\ cmpAgain' = <<compare(cmpA, cmpB, clock)>>
  /\ UNCHANGED <<cliVars, steps, exitCode, cmpVars, cmdVars, callVars, obsVars, clock, measVars, storeVars>>

NextTwice ==
  \/ Tick
  \/ Compare
  \/ CompareAgain

SpecTwice == InitTwice /\ [][NextTwice]_vars

----------------------------------------------------------------------------
(* Sums used to state the claims, independent of the loops of the code *)

RECURSIVE FnSum(_)
FnSum(f) ==
  IF DOMAIN f = {}
  THEN 0
  ELSE LET k == CHOOSE x \in DOMAIN f : TRUE
       IN  f[k] + FnSum([x \in DOMAIN f \ {k} |-> f[x]])

RECURSIVE RatFnSum(_)
RatFnSum(f) ==
  IF DOMAIN f = {}
  THEN RatZero
  ELSE LET k == CHOOSE x \in DOMAIN f : TRUE
       IN  RatAdd(f[k], RatFnSum([x \in DOMAIN f \ {k} |-> f[x]]))

\* The categories present in both profiles handed to the comparator.
CmpShared == MapKeys(cmpA.functionGas) \cap MapKeys(cmpB.functionGas)

\* Position of category k in map m.
MapIndex(m, k) == CHOOSE i \in 1..Len(m) : m[i].name = k

----------------------------------------------------------------------------
(* Claims about the comparator, checked under SpecCmp *)

\* C3: deploymentSavings.absolute is baseline.deploymentGas minus
\* candidate.deploymentGas; when the baseline is positive the percentage p
\* satisfies p * baseline = 100 * absolute, and when the baseline is 0 the
\* percentage is exactly 0.
C3_DeploymentSavings ==
  cmpOut # <<>> =>
    LET d == cmpOut[1].savings.deploymentSavings
        a == cmpA.deploymentGas
        b == cmpB.deploymentGas
    IN  /\ d.absolute = b - a
        /\ d.percentage.d > 0
        /\ b > 0 => d.percentage.n * b = 100 * d.absolute * d.percentage.d
        /\ b = 0 => d.percentage = RatZero

\* C3 witness: a compared pair with a positive baseline and a percentage that
\* is not a whole number.
C3_Witness ==
  /\ cmpOut # <<>>
  /\ cmpB.deploymentGas > 0
  /\ cmpA.deploymentGas > 0
  /\ cmpOut[1].savings.deploymentSavings.percentage.d > 1

\* C4: the keys of functionSavings are exactly the categories present in both
\* profiles, each once, in the candidate's insertion order, each entry with
\* absolute = baseline avgGas - candidate avgGas.
C4_FunctionSavingsIntersection ==
  cmpOut # <<>> =>
    LET fs == cmpOut[1].savings.functionSavings
    IN  /\ MapKeys(fs) = CmpShared
        /\ Len(fs) = Cardinality(CmpShared)
        /\ \A i, j \in 1..Len(fs) :
             i < j => MapIndex(cmpA.functionGas, fs[i].name)
                        < MapIndex(cmpA.functionGas, fs[j].name)
        /\ \A i \in 1..Len(fs) :
             fs[i].absolute = MapGet(cmpB.functionGas, fs[i].name).avgGas
                                - MapGet(cmpA.functionGas, fs[i].name).avgGas

\* C4 witness: two shared categories held in opposite orders by the two
\* profiles, one of them with a baseline avgGas of 0, and a category that only
\* one profile has.
C4_Witness ==
  /\ cmpOut # <<>>
  /\ Cardinality(CmpShared) = 2
  /\ Len(cmpA.functionGas) = 2
  /\ cmpA.functionGas[1].name = cmpB.functionGas[2].name
  /\ cmpB.functionGas[2].avgGas = 0
  /\ cmpA.functionGas[1].avgGas > 0

\* C5: totalAvgSavings holds the unweighted means of absolute and percentage
\* over the entries of functionSavings (mean * count = sum); with no shared
\* category it is {0, 0} and tco.functionCount is 0.
C5_TotalAvgSavings ==
  cmpOut # <<>> =>
    LET fs == cmpOut[1].savings.functionSavings
        t  == cmpOut[1].savings.totalAvgSavings
    IN  /\ Len(fs) > 0 =>
             /\ RatMulInt(t.absolute, Len(fs))
                  = RatOfInt(FnSum([i \in 1..Len(fs) |-> fs[i].absolute]))
             /\ RatMulInt(t.percentage, Len(fs))
                  = RatFnSum([i \in 1..Len(fs) |-> fs[i].percentage])
        /\ CmpShared = {} =>
             /\ t = [absolute |-> RatZero, percentage |-> RatZero]
             /\ cmpOut[1].tco.functionCount = 0

\* C5 witness: two shared categories whose mean absolute saving and mean
\* percentage are both fractional.
C5_Witness ==
  /\ cmpOut # <<>>
  /\ Len(cmpOut[1].savings.functionSavings) = 2
  /\ cmpOut[1].savings.totalAvgSavings.absolute.d > 1
  /\ cmpOut[1].savings.totalAvgSavings.percentage.d > 1

\* The part of C6 about the totals: each TCO is the deployment gas plus the sum
\* over the shared categories of avgGas * calls used, tcoAbsolute is their
\* difference, tcoPercentage is 0 for a zero baseline TCO and functionCount is
\* the number of shared categories.
TcoTotals ==
  cmpOut # <<>> =>
    LET tco == cmpOut[1].tco
        used(m) == FnSum([k \in CmpShared |->
                            MapGet(m, k).avgGas * callsUsed(MapGet(m, k))])
    IN  /\ tco.rustTCO - cmpA.deploymentGas = used(cmpA.functionGas)
        /\ tco.solidityTCO - cmpB.deploymentGas = used(cmpB.functionGas)
        /\ tco.tcoAbsolute = tco.solidityTCO - tco.rustTCO
        /\ tco.solidityTCO = 0 => tco.tcoPercentage = RatZero
        /\ tco.functionCount = Cardinality(CmpShared)
        /\ tco.functionCount = Len(cmpOut[1].savings.functionSavings)

\* The part of C6 about the reported frequency: callFrequency is the call count
\* used in the products of every shared category, on both sides.
TcoFrequencyIsUsed ==
  cmpOut # <<>> =>
    \A k \in CmpShared :
      /\ callsUsed(MapGet(cmpA.functionGas, k)) = cmpOut[1].tco.callFrequency
      /\ callsUsed(MapGet(cmpB.functionGas, k)) = cmpOut[1].tco.callFrequency

\* C6 as stated: the TCO totals are deployment gas plus the sum over shared
\* categories of avgGas * calls used, tcoAbsolute and tcoPercentage follow from
\* them, functionCount is the number of shared categories, and callFrequency
\* reports the call count actually used in the products.
C6_TcoAsClaimed == TcoTotals /\ TcoFrequencyIsUsed

\* C6 as amended: the same totals, tcoAbsolute, tcoPercentage and functionCount,
\* and callFrequency is always the fallback constant 100, whatever call counts
\* the products used.
C6_TcoWithConstantFrequency ==
  /\ TcoTotals
  /\ cmpOut # <<>> => cmpOut[1].tco.callFrequency = 100

\* C6 witness: a shared category whose products used a count other than 100, a
\* category only the candidate has, and a positive baseline TCO.
C6_Witness ==
  /\ cmpOut # <<>>
  /\ \E k \in CmpShared : callsUsed(MapGet(cmpB.functionGas, k)) # 100
  /\ \E k \in CmpShared : callsUsed(MapGet(cmpA.functionGas, k)) = 100
  /\ \E k \in MapKeys(cmpA.functionGas) \ CmpShared :
       MapGet(cmpA.functionGas, k).avgGas > 0
  /\ cmpOut[1].tco.solidityTCO > 0
  /\ cmpOut[1].tco.tcoPercentage.d > 1

----------------------------------------------------------------------------
(* GasProfiler *)

\* Math.floor of a rational.
RatFloor(p) == p.n \div p.d

\* One functionGasMap.set(name, {avgGas, calls}) of estimateGasProfile.
estimateEntry(name, avgGas, calls) ==
  [name |-> name, avgGas |-> avgGas, calls |-> <<calls>>, executions |-> <<>>]

\* A mutation of estimatedDeploymentGas: the hex length is taken for the byte
\* count (the division by two is forgotten).
estimatedDeploymentGas_hexLength(compilation) ==
  LET bytecodeSize == RatOfInt(compilation.bytecodeLen)
  IN  IF compilation.language = "rust"
      THEN RatFloor(RatAdd(RatOfInt(21000), RatMulInt(bytecodeSize, 16)))
      ELSE RatFloor(RatAdd(RatOfInt(21000), RatMulInt(bytecodeSize, 200)))

\* compilation.bytecodeLen is bytecode.length, the number of hex characters;
\* bytecodeSize = bytecode.length / 2 and the gas is Math.floor(21000 +
\* bytecodeSize * rate).
estimatedDeploymentGas(compilation) ==
  LET bytecodeSize == RatNorm(compilation.bytecodeLen, 2)
  IN  IF compilation.language = "rust"
      THEN RatFloor(RatAdd(RatOfInt(21000), RatMulInt(bytecodeSize, 16)))
      ELSE RatFloor(RatAdd(RatOfInt(21000), RatMulInt(bytecodeSize, 200)))

\* A mutation of estimatedFunctionGas: the write and compute rows are set in
\* the other order.
estimatedFunctionGas_rowOrder(language) ==
  IF language = "rust"
  THEN MapSet(MapSet(MapSet(MapSet(<<>>,
         estimateEntry("read", 5000, 100)),
         estimateEntry("compute", 8000, 100)),
         estimateEntry("write", 12000, 100)),
         estimateEntry("oracle", 75000, 100))
  ELSE MapSet(MapSet(MapSet(MapSet(<<>>,
         estimateEntry("read", 6000, 100)),
         estimateEntry("compute", 15000, 100)),
         estimateEntry("write", 20000, 100)),
         estimateEntry("oracle", 103000, 100))

\* The functionGasMap estimateGasProfile fills for one language.
estimatedFunctionGas(language) ==
  IF language = "rust"
  THEN MapSet(MapSet(MapSet(MapSet(<<>>,
         estimateEntry("read", 5000, 100)),
         estimateEntry("write", 12000, 100)),
         estimateEntry("compute", 8000, 100)),
         estimateEntry("oracle", 75000, 100))
  ELSE MapSet(MapSet(MapSet(MapSet(<<>>,
         estimateEntry("read", 6000, 100)),
         estimateEntry("write", 20000, 100)),
         estimateEntry("compute", 15000, 100)),
         estimateEntry("oracle", 103000, 100))

estimateGasProfile(compilation) ==
  [contractName  |-> compilation.contractName,
   language      |-> compilation.language,
   deploymentGas |-> estimatedDeploymentGas(compilation),
   functionGas   |-> estimatedFunctionGas(compilation.language),
   network       |-> "estimation",
   blockNumber   |-> 0]

\* Names getNetwork can answer with; an empty name is reported as 'unknown'.
NetworkNames == {"", "arbitrum-sepolia"}

\* Block heights getBlockNumber can answer with.
BlockNumbers == {0, 7}

\* Gas a deployment receipt can report.
ReceiptGas == {53000}

\* profileContract is running (one of the two calls of profileCommand).
Profiling == pc \in {"profileRust", "profileSolidity"}

\* The language of the compilation being profiled.
Running == IF pc = "profileRust" THEN "rust" ELSE "solidity"

\* The argument of the running profileContract.
currentCompilation == IF pc = "profileRust" THEN rustResult[1] ELSE solidityResult[1]

\* profileContract returns profile to profileCommand, which stores it and
\* moves to its next statement.
Return(profile) ==
  /\ IF pc = "profileRust"
     THEN /\ rustProfile' = <<profile>>
          /\ pc' = "profileSolidity"
          /\ UNCHANGED solidityProfile
     ELSE /\ solidityProfile' = <<profile>>
          /\ pc' = "compare"
          /\ UNCHANGED rustProfile
  /\ probe' = "idle"
  /\ network' = <<>>
  /\ blockNumber' = 0
  /\ deploymentGas' = 0
  /\ steps' = Append(steps, <<pc, "end">>)

\* The catch of the probe: return this.estimateGasProfile(compilation).
ReturnEstimate == Return(estimateGasProfile(currentCompilation))

\* profileContract is called: getNetwork is sent and raced against a new
\* 5000 ms timer.
StartProbe ==
  /\ Profiling
  /\ probe = "idle"
  /\ probe' = "awaitNetwork"
  /\ timer' = [timer EXCEPT ![Running] = "pending"]
  /\ steps' = Append(steps, <<pc, "start">>)
  /\ UNCHANGED <<cliVars, exitCode, auxVars, cmpVars, cmdVars, network, blockNumber, deploymentGas,
                 txSent, timerHit, probeRejected>>

\* getNetwork answers first: the race resolves and getBlockNumber is sent.
NetworkResolve ==
  /\ Profiling
  /\ probe = "awaitNetwork"
  /\ \E name \in NetworkNames : network' = <<name>>
  /\ probe' = "awaitBlock"
  /\ UNCHANGED <<cliVars, steps, exitCode, auxVars, cmpVars, cmdVars, blockNumber, deploymentGas, obsVars>>

\* getNetwork rejects first: the race rejects.
NetworkReject ==
  /\ Profiling
  /\ probe = "awaitNetwork"
  /\ probeRejected' = [probeRejected EXCEPT ![Running] = TRUE]
  /\ ReturnEstimate
  /\ UNCHANGED <<cliVars, exitCode, auxVars, cmpVars, rustResult, solidityResult, timer,
                 txSent, timerHit>>

\* The timer set by the invocation for language l fires (it is never cleared,
\* and the candidate's timer, set first, fires first).  It rejects the race
\* when the race is still pending and is otherwise ignored.
TimerFire(l) ==
  /\ timer[l] = "pending"
  /\ l = "solidity" => timer["rust"] # "pending"
  /\ timer' = [timer EXCEPT ![l] = "fired"]
  /\ IF Profiling /\ Running = l /\ probe = "awaitNetwork"
     THEN /\ timerHit' = [timerHit EXCEPT ![l] = TRUE]
          /\ ReturnEstimate
          /\ UNCHANGED <<cliVars, exitCode, auxVars, cmpVars, rustResult, solidityResult, txSent, probeRejected>>
     ELSE /\ timerHit' = [timerHit EXCEPT ![l] =
                            @ \/ (Profiling /\ Running = l /\ probe = "awaitBlock")]
          /\ UNCHANGED <<cliVars, steps, exitCode, auxVars, cmpVars, cmdVars, callVars, txSent, probeRejected>>

\* getBlockNumber answers.
BlockResolve ==
  /\ Profiling
  /\ probe = "awaitBlock"
  /\ \E n \in BlockNumbers : blockNumber' = n
  /\ probe' = "measureDeployment"
  /\ UNCHANGED <<cliVars, steps, exitCode, auxVars, cmpVars, cmdVars, network, deploymentGas, obsVars>>

\* getBlockNumber rejects.
BlockReject ==
  /\ Profiling
  /\ probe = "awaitBlock"
  /\ probeRejected' = [probeRejected EXCEPT ![Running] = TRUE]
  /\ ReturnEstimate
  /\ UNCHANGED <<cliVars, exitCode, auxVars, cmpVars, rustResult, solidityResult, timer,
                 txSent, timerHit>>

\* measureDeploymentGas with a failure that is not caught: the error leaves
\* profileContract and profileCommand's catch ends the process.
MeasureDeployment_propagates ==
  /\ Profiling
  /\ probe = "measureDeployment"
  /\ txSent' = [txSent EXCEPT ![Running] = @ + 1]
  /\ \E g \in ReceiptGas \cup {0} :
       /\ deployFailed' = [deployFailed EXCEPT ![Running] = (g = 0)]
       /\ IF g = 0
          THEN /\ pc' = "exit1"
               /\ exitCode' = <<1>>
               /\ probe' = "idle"
               /\ UNCHANGED deploymentGas
          ELSE /\ deploymentGas' = g
               /\ probe' = "measureFunctions"
               /\ UNCHANGED <<pc, exitCode>>
  /\ UNCHANGED <<cliVars, steps, cmpVars, rustResult, solidityResult, rustProfile, solidityProfile,
                 network, blockNumber, timer, timerHit, probeRejected, clock,
                 cmpAgain, testCases, callLog, storeVars>>

\* measureDeploymentGas: the deployment is handed to the signer; the receipt's
\* gasUsed is the result, and any failure is caught and gives 0.
MeasureDeployment ==
  /\ Profiling
  /\ probe = "measureDeployment"
  /\ txSent' = [txSent EXCEPT ![Running] = @ + 1]
  /\ \E g \in ReceiptGas \cup {0} :
       /\ deploymentGas' = g
       /\ deployFailed' = [deployFailed EXCEPT ![Running] = (g = 0)]
  /\ probe' = "measureFunctions"
  /\ UNCHANGED <<cliVars, steps, exitCode, cmpVars, cmdVars, network, blockNumber, timer, timerHit,
                 probeRejected, clock, cmpAgain, testCases, callLog, storeVars>>

\* Gas the receipt of a function call can report.
CallGas == {30, 45}

\* What a call of the test loop can meet: <<>> when it throws, <<gasUsed>> when
\* its receipt arrives.
CallOutcomes == {<<>>} \cup {<<g>> : g \in CallGas}

RECURSIVE SeqSum(_)
\* gasUsages.reduce((a, b) => a + b, 0)
SeqSum(s) == IF s = <<>> THEN 0 ELSE s[1] + SeqSum(Tail(s))

\* Math.min(...gasUsages), as the first element instead of the least
SeqMin_first(s) == s[1]

\* Math.min(...gasUsages)
SeqMin(s) == CHOOSE x \in {s[i] : i \in 1..Len(s)} : \A i \in 1..Len(s) : x <= s[i]

\* Math.max(...gasUsages)
SeqMax(s) == CHOOSE x \in {s[i] : i \in 1..Len(s)} : \A i \in 1..Len(s) : x >= s[i]

\* The TestCase pushed for inputs[i] (i counted from 1, as in its name).
testResult(i, input, outcome) ==
  [name    |-> <<"Test", i>>,
   inputs  |-> input,
   gasUsed |-> IF outcome = <<>> THEN 0 ELSE outcome[1],
   success |-> outcome # <<>>,
   error   |-> outcome = <<>>]

\* gasUsages after the inner loop: the gasUsed of the calls that succeeded.
gasUsagesOf(outcomes) ==
  LET ok == SelectSeq(outcomes, LAMBDA o : o # <<>>)
  IN  [i \in 1..Len(ok) |-> ok[i][1]]

\* The FunctionGasData set for functionName, with every attempted call in the
\* divisor and in executions.
functionGasData_allAttempts(functionName, inputs, outcomes) ==
  LET gasUsages == gasUsagesOf(outcomes)
      avgGas    == RatNorm(SeqSum(gasUsages), Len(inputs))
  IN  [name         |-> functionName,
       functionName |-> functionName,
       gasUsed      |-> avgGas,
       executions   |-> <<Len(inputs)>>,
       calls        |-> <<>>,
       avgGas       |-> avgGas,
       minGas       |-> SeqMin(gasUsages),
       maxGas       |-> SeqMax(gasUsages),
       testCases    |-> [i \in 1..Len(inputs) |-> testResult(i, inputs[i], outcomes[i])]]

\* The FunctionGasData set for functionName, had the inner loop ended at the
\* first call that throws: the records stop there.
functionGasData_stopAtFailure(functionName, inputs, outcomes) ==
  LET gasUsages == gasUsagesOf(outcomes)
      avgGas    == RatNorm(SeqSum(gasUsages), Len(gasUsages))
      attempted == {i \in 1..Len(inputs) : \A j \in 1..(i - 1) : outcomes[j] # <<>>}
  IN  [name         |-> functionName,
       functionName |-> functionName,
       gasUsed      |-> avgGas,
       executions   |-> <<Len(gasUsages)>>,
       calls        |-> <<>>,
       avgGas       |-> avgGas,
       minGas       |-> SeqMin(gasUsages),
       maxGas       |-> SeqMax(gasUsages),
       testCases    |-> [i \in 1..Cardinality(attempted) |->
                           testResult(i, inputs[i], outcomes[i])]]

\* The FunctionGasData set for functionName when gasUsages is not empty.
functionGasData(functionName, inputs, outcomes) ==
  LET gasUsages == gasUsagesOf(outcomes)
      avgGas    == RatNorm(SeqSum(gasUsages), Len(gasUsages))
  IN  [name         |-> functionName,
       functionName |-> functionName,
       gasUsed      |-> avgGas,
       executions   |-> <<Len(gasUsages)>>,
       calls        |-> <<>>,
       avgGas       |-> avgGas,
       minGas       |-> SeqMin(gasUsages),
       maxGas       |-> SeqMax(gasUsages),
       testCases    |-> [i \in 1..Len(inputs) |-> testResult(i, inputs[i], outcomes[i])]]

\* The body of the loop over testCases, setting an entry only when every call
\* of the function succeeded.
measureStep_allSucceeded(functionGasMap, test, outcomes) ==
  IF Len(gasUsagesOf(outcomes)) > 0 /\ Len(gasUsagesOf(outcomes)) = Len(test.inputs)
  THEN MapSet(functionGasMap, functionGasData(test.name, test.inputs, outcomes))
  ELSE functionGasMap

\* The body of the loop over testCases for one [functionName, inputs].
measureStep(functionGasMap, test, outcomes) ==
  IF Len(gasUsagesOf(outcomes)) > 0
  THEN MapSet(functionGasMap, functionGasData(test.name, test.inputs, outcomes))
  ELSE functionGasMap

RECURSIVE measureLoop(_, _, _, _)
\* for (const [functionName, inputs] of testCases), from the k-th entry on
measureLoop(functionGasMap, tests, outcomes, k) ==
  IF k > Len(tests) THEN functionGasMap
  ELSE measureLoop(measureStep(functionGasMap, tests[k], outcomes[k]),
                   tests, outcomes, k + 1)

\* measureFunctionGas(compilation, testCases), where run tells what the
\* deployment and the calls met.
measureFunctionGas(compilation, tests, run) ==
  IF ~compilation.abi \/ tests = <<>> THEN <<>>
  ELSE IF compilation.language # "solidity" THEN <<>>
  ELSE IF run.deploy # "ok" THEN <<>>
  ELSE measureLoop(<<>>, tests[1], run.outcomes, 1)

\* Everything a call of measureFunctionGas can meet: no deployment when it
\* returns early, else a deployment that fails or succeeds, and then one
\* outcome for every call of the loop.
FunctionRuns(compilation, tests) ==
  IF ~compilation.abi \/ tests = <<>> \/ compilation.language # "solidity"
  THEN {[deploy |-> "none", outcomes |-> <<>>]}
  ELSE {[deploy |-> "failed", outcomes |-> <<>>]} \cup
       {[deploy |-> "ok", outcomes |-> o] :
          o \in {f \in [1..Len(tests[1]) -> UNION {[1..n -> CallOutcomes] : n \in 0..MaxCases}] :
                   \A k \in 1..Len(tests[1]) : Len(f[k]) = Len(tests[1][k].inputs)}}

\* Transactions measureFunctionGas hands to the signer: its own deployment
\* and one per call of the loop.
RunSent(run) ==
  IF run.deploy = "none" THEN 0
  ELSE 1 + SeqSum([k \in 1..Len(run.outcomes) |-> Len(run.outcomes[k])])

\* What one call of measureFunctionGas met and returned.
Logged(run, functionGas) ==
  [deploy |-> run.deploy, outcomes |-> run.outcomes, functionGas |-> functionGas]

\* The profile returned after the measurement (lines 52-60).
measuredProfile(compilation, functionGas) ==
  [contractName  |-> compilation.contractName,
   language      |-> compilation.language,
   deploymentGas |-> deploymentGas,
   functionGas   |-> functionGas,
   network       |-> IF network[1] = "" THEN "unknown" ELSE network[1],
   blockNumber   |-> blockNumber]

\* The end of profileContract, returning the estimate whenever no test cases
\* were handed over.
MeasureFunctions_estimateWithoutTests ==
  /\ Profiling
  /\ probe = "measureFunctions"
  /\ \E run \in FunctionRuns(currentCompilation, testCases) :
       /\ callLog' = [callLog EXCEPT ![Running] = <<Logged(run,
                       measureFunctionGas(currentCompilation, testCases, run))>>]
       /\ txSent' = [txSent EXCEPT ![Running] = @ + RunSent(run)]
       /\ IF testCases = <<>>
          THEN ReturnEstimate
          ELSE Return(measuredProfile(currentCompilation,
                 measureFunctionGas(currentCompilation, testCases, run)))
  /\ UNCHANGED <<cliVars, exitCode, cmpVars, rustResult, solidityResult, timer, timerHit,
                 probeRejected, clock, cmpAgain, testCases, deployFailed, storeVars>>

\* functionGas = await this.measureFunctionGas(compilation, testCases), and
\* profileContract returns the measured profile.
MeasureFunctions ==
  /\ Profiling
  /\ probe = "measureFunctions"
  /\ \E run \in FunctionRuns(currentCompilation, testCases) :
       /\ callLog' = [callLog EXCEPT ![Running] = <<Logged(run,
                       measureFunctionGas(currentCompilation, testCases, run))>>]
       /\ txSent' = [txSent EXCEPT ![Running] = @ + RunSent(run)]
       /\ Return(measuredProfile(currentCompilation,
            measureFunctionGas(currentCompilation, testCases, run)))
  /\ UNCHANGED <<cliVars, exitCode, cmpVars, rustResult, solidityResult, timer, timerHit,
                 probeRejected, clock, cmpAgain, testCases, deployFailed, storeVars>>

----------------------------------------------------------------------------
(* measureFunctionGas applied to arbitrary test cases *)

\* Function names of the test cases.
TestNames == {"get", "set"}

\* The input lists of a function with n test cases: the i-th holds argument i.
TestInputs(n) == [i \in 1..n |-> <<i>>]

\* Every Map of test cases over TestNames, in every order, each function with
\* 0..MaxCases input lists.
TestMaps ==
  LET raw == UNION {[1..k -> TestNames \X (0..MaxCases)] : k \in 0..Cardinality(TestNames)}
      ok  == {t \in raw : \A i, j \in 1..Len(t) : i # j => t[i][1] # t[j][1]}
  IN  {[i \in 1..Len(t) |-> [name |-> t[i][1], inputs |-> TestInputs(t[i][2])]] : t \in ok}

\* Compilations handed to measureFunctionGas: abi is optional in either language.
MeasureArgs(language) ==
  {[success |-> TRUE, contractName |-> NameA, language |-> language,
    bytecodeLen |-> 2, abi |-> a] : a \in BOOLEAN}

InitMeasure ==
  /\ cmpA = <<>>
  /\ cmpB = <<>>
  /\ cmpOut = <<>>
  /\ cmpAgain = <<>>
  /\ clock = 0
  /\ pc = "idle"
  /\ rustResult \in {<<c>> : c \in MeasureArgs("rust")}
  /\ solidityResult \in {<<c>> : c \in MeasureArgs("solidity")}
  /\ rustProfile = <<>>
  /\ solidityProfile = <<>>
  /\ probe = "idle"
  /\ network = <<>>
  /\ blockNumber = 0
  /\ deploymentGas = 0
  /\ timer = [l \in Languages |-> "unset"]
  /\ txSent = [l \in Languages |-> 0]
  /\ timerHit = [l \in Languages |-> FALSE]
  /\ probeRejected = [l \in Languages |-> FALSE]
  /\ testCases \in {<<>>} \cup {<<t>> : t \in TestMaps}
  /\ deployFailed = [l \in Languages |-> FALSE]
  /\ callLog = [l \in Languages |-> <<>>]
  /\ StoreIdle
  /\ CliIdle

\* measureFunctionGas(compilation, testCases) for the compilation of language l
MeasureFunctionGas(l) ==
  /\ pc = "idle"
  /\ callLog[l] = <<>>
  /\ LET compilation == IF l = "rust" THEN rustResult[1] ELSE solidityResult[1]
     IN  \E run \in FunctionRuns(compilation, testCases) :
           /\ callLog' = [callLog EXCEPT ![l] = <<Logged(run,
                           measureFunctionGas(compilation, testCases, run))>>]
           /\ txSent' = [txSent EXCEPT ![l] = @ + RunSent(run)]
  /\ UNCHANGED <<cliVars, steps, exitCode, cmpVars, cmdVars, callVars, timer, timerHit, probeRejected, clock,
                 cmpAgain, testCases, deployFailed, storeVars>>

NextMeasure == \E l \in Languages : MeasureFunctionGas(l)

SpecMeasure == InitMeasure /\ [][NextMeasure]_vars

----------------------------------------------------------------------------
(* ResultsStore *)

RECURSIVE StrLess(_, _)
\* a < b as Array.prototype.sort compares two strings: code unit by code
\* unit, a proper prefix first.
StrLess(a, b) ==
  IF b = <<>> THEN FALSE
  ELSE IF a = <<>> THEN TRUE
  ELSE IF a[1] # b[1] THEN a[1] < b[1]
  ELSE StrLess(Tail(a), Tail(b))

\* f.startsWith(prefix)
startsWith(f, prefix) ==
  Len(prefix) <= Len(f) /\ SubSeq(f, 1, Len(prefix)) = prefix

\* new Date().toISOString().replace(/[:.]/g, '-'): a text of fixed width whose
\* digits give the reading of the clock, to the millisecond.
fileStamp(now) == <<Chr.digit0 + (now \div 10), Chr.digit0 + (now % 10)>>

\* `${comparison.contractName}_${timestamp}.json`
fileName(contractName, now) ==
  contractName \o <<Chr.underscore>> \o fileStamp(now)
    \o <<Chr.dot, Chr.j, Chr.s, Chr.o, Chr.n>>

\* Array.from(map.entries()): the [key, value] pairs in insertion order.
mapEntries(m) == [i \in 1..Len(m) |-> <<m[i].name, m[i]>>]

RECURSIVE newMapFrom(_, _, _)
\* new Map(pairs), from the k-th pair on: each pair is set under its key.
newMapFrom(m, pairs, k) ==
  IF k > Len(pairs) THEN m
  ELSE newMapFrom(MapSet(m, [pairs[k][2] EXCEPT !.name = pairs[k][1]]), pairs, k + 1)

\* new Map(pairs)
newMap(pairs) == newMapFrom(<<>>, pairs, 1)

serializeComparison(comparison) ==
  [comparison EXCEPT
     !.rustProfile     = [@ EXCEPT !.functionGas = mapEntries(@)],
     !.solidityProfile = [@ EXCEPT !.functionGas = mapEntries(@)],
     !.savings         = [@ EXCEPT !.functionSavings = mapEntries(@)]]

\* deserializeComparison that leaves savings.functionSavings as it was stored.
deserializeComparison_savingsArray(data) ==
  [data EXCEPT
     !.rustProfile     = [@ EXCEPT !.functionGas = newMap(@)],
     !.solidityProfile = [@ EXCEPT !.functionGas = newMap(@)]]

deserializeComparison(data) ==
  [data EXCEPT
     !.rustProfile     = [@ EXCEPT !.functionGas = newMap(@)],
     !.solidityProfile = [@ EXCEPT !.functionGas = newMap(@)],
     !.savings         = [@ EXCEPT !.functionSavings = newMap(@)]]

\* The names of the files of the results directory.
FilesOf(dir) == {e.file : e \in dir}

\* The content of file f of the results directory.
ContentOf(dir, f) == (CHOOSE e \in dir : e.file = f).data

RECURSIVE sorted(_)
\* files.sort(): ascending by code units.
sorted(S) ==
  IF S = {} THEN <<>>
  ELSE LET least == CHOOSE x \in S : \A y \in S \ {x} : StrLess(x, y)
       IN  <<least>> \o sorted(S \ {least})

\* files.reverse()
reverse(q) == [i \in 1..Len(q) |-> q[Len(q) + 1 - i]]

\* list(): the .json files of the directory, sorted and reversed.
list(dir) == reverse(sorted(FilesOf(dir)))

\* The contract names results are saved under: "A" and "AB".
StoreNames == {NameA, NameAB}

\* The file names load and delete are called with.
StoreFiles == {fileName(n, t) : n \in StoreNames, t \in 0..MaxClock}

\* The comparison profileCommand hands to save for contract name n: the result
\* of compare, made at reading t, of the two estimation-mode profiles.
StoreComparison(n, t) ==
  compare(estimateGasProfile([success |-> TRUE, contractName |-> n, language |-> "rust",
                               bytecodeLen |-> 2, abi |-> FALSE]),
          estimateGasProfile([success |-> TRUE, contractName |-> n, language |-> "solidity",
                               bytecodeLen |-> 2, abi |-> TRUE]),
          t)

\* What a call of the store answered.
Answer(op, arg, found, error, value) ==
  [op |-> op, arg |-> arg, found |-> found, error |-> error, value |-> value]

\* The body of save(comparison): the file named after the contract and the
\* reading of the clock is written, replacing a file of that name, and its
\* path is returned.
SaveComparison(comparison) ==
  LET filename == fileName(comparison.contractName, clock)
  IN  /\ archive' = {e \in archive : e.file # filename} \cup
                       {[file |-> filename, data |-> serializeComparison(comparison)]}
      /\ saveLog' = Append(saveLog, [file |-> filename, at |-> clock,
                                      comparison |-> comparison])
      /\ opResult' = <<Answer("save", <<>>, filename \in FilesOf(archive), FALSE,
                               <<filename>>)>>

InitStore ==
  /\ cmpA = <<>>
  /\ cmpB = <<>>
  /\ cmpOut = <<>>
  /\ cmpAgain = <<>>
  /\ clock = 0
  /\ RunIdle
  /\ MeasIdle
  /\ StoreIdle
  /\ CliIdle

\* save(comparison), by any process: the file named after the contract and
\* the reading of the clock is written, replacing a file of that name.
Save(n) ==
  /\ pc = "idle"
  /\ Len(saveLog) < MaxSaves
  /\ \E t \in 0..clock : SaveComparison(StoreComparison(n, t))
  /\ UNCHANGED <<cliVars, steps, exitCode, cmpVars, cmdVars, callVars, obsVars, clock, cmpAgain, measVars>>

\* load(filename)
Load(f) ==
  /\ pc = "idle"
  /\ opResult' = IF f \notin FilesOf(archive)
                 THEN <<Answer("load", f, FALSE, TRUE, <<>>)>>
                 ELSE <<Answer("load", f, TRUE, FALSE,
                               <<deserializeComparison(ContentOf(archive, f))>>)>>
  /\ UNCHANGED <<cliVars, steps, exitCode, cmpVars, cmdVars, callVars, obsVars, clock, cmpAgain, measVars,
                 archive, saveLog>>

\* delete(filename), raising an error when the file is missing.
Delete_throwsWhenMissing(f) ==
  /\ pc = "idle"
  /\ archive' = {e \in archive : e.file # f}
  /\ opResult' = <<Answer("delete", f, f \in FilesOf(archive), f \notin FilesOf(archive),
                           <<>>)>>
  /\ UNCHANGED <<cliVars, steps, exitCode, cmpVars, cmdVars, callVars, obsVars, clock, cmpAgain, measVars,
                 saveLog>>

\* delete(filename)
Delete(f) ==
  /\ pc = "idle"
  /\ archive' = IF f \in FilesOf(archive) THEN {e \in archive : e.file # f} ELSE archive
  /\ opResult' = <<Answer("delete", f, f \in FilesOf(archive), FALSE, <<>>)>>
  /\ UNCHANGED <<cliVars, steps, exitCode, cmpVars, cmdVars, callVars, obsVars, clock, cmpAgain, measVars,
                 saveLog>>

\* list()
List ==
  /\ pc = "idle"
  /\ opResult' = <<Answer("list", <<>>, TRUE, FALSE, list(archive))>>
  /\ UNCHANGED <<cliVars, steps, exitCode, cmpVars, cmdVars, callVars, obsVars, clock, cmpAgain, measVars,
                 archive, saveLog>>

\* getLatest(contractName?), arg being <<>> without an argument
GetLatest(arg) ==
  /\ pc = "idle"
  /\ LET files         == list(archive)
         filteredFiles == IF arg # <<>> /\ arg[1] # <<>>
                          THEN SelectSeq(files, LAMBDA f : startsWith(f, arg[1]))
                          ELSE files
     IN  opResult' = IF Len(filteredFiles) = 0
                     THEN <<Answer("getLatest", arg, FALSE, FALSE, <<>>)>>
                     ELSE <<Answer("getLatest", arg, TRUE, FALSE,
                              <<deserializeComparison(ContentOf(archive, filteredFiles[1]))>>)>>
  /\ UNCHANGED <<cliVars, steps, exitCode, cmpVars, cmdVars, callVars, obsVars, clock, cmpAgain, measVars,
                 archive, saveLog>>

NextStore ==
  \/ Tick
  \/ \E n \in StoreNames : Save(n)
  \/ \E f \in StoreFiles : Load(f)
  \/ \E f \in StoreFiles : Delete(f)
  \/ List
  \/ \E arg \in {<<>>} \cup {<<n>> : n \in StoreNames} : GetLatest(arg)

SpecStore == InitStore /\ [][NextStore]_vars

----------------------------------------------------------------------------
(* profileCommand *)

\* What a compiler adapter can return: a binary of 1..MaxBytes bytes as hex,
\* or a failure with an empty bytecode.
CompilationResults(language) ==
  {[success |-> TRUE, contractName |-> NameA, language |-> language,
    bytecodeLen |-> 2 * b, abi |-> language = "solidity"] : b \in 1..MaxBytes}
    \cup {[success |-> FALSE, contractName |-> NameA, language |-> language,
           bytecodeLen |-> 0, abi |-> FALSE]}

\* rustResult = await rustCompiler.compile(options.rustPath)
CompileRust ==
  /\ pc = "compileRust"
  /\ \E r \in CompilationResults("rust") : rustResult' = <<r>>
  /\ pc' = "compileSolidity"
  /\ steps' = steps \o <<<<pc, "start">>, <<pc, "end">>>>
  /\ UNCHANGED <<cliVars, exitCode, auxVars, cmpVars, solidityResult, rustProfile,
                 solidityProfile, callVars, obsVars>>

\* The second compilation, followed by a check of the first result only.
CompileSolidity_rustChecked ==
  /\ pc = "compileSolidity"
  /\ \E r \in CompilationResults("solidity") :
       /\ solidityResult' = <<r>>
       /\ pc' = IF ~rustResult[1].success THEN "exit1" ELSE "profileRust"
       /\ exitCode' = IF ~rustResult[1].success THEN <<1>> ELSE exitCode
  /\ steps' = steps \o <<<<pc, "start">>, <<pc, "end">>>>
  /\ UNCHANGED <<cliVars, auxVars, cmpVars, rustResult, rustProfile, solidityProfile,
                 callVars, obsVars>>

\* solidityResult = await solidityCompiler.compile(options.solidityPath), then
\* process.exit(1) unless both compilations succeeded.
CompileSolidity ==
  /\ pc = "compileSolidity"
  /\ \E r \in CompilationResults("solidity") :
       /\ solidityResult' = <<r>>
       /\ pc' = IF ~rustResult[1].success \/ ~r.success THEN "exit1" ELSE "profileRust"
       /\ exitCode' = IF ~rustResult[1].success \/ ~r.success THEN <<1>> ELSE exitCode
  /\ steps' = steps \o <<<<pc, "start">>, <<pc, "end">>>>
  /\ UNCHANGED <<cliVars, auxVars, cmpVars, rustResult, rustProfile, solidityProfile,
                 callVars, obsVars>>

\* comparison = comparator.compare(rustProfile, solidityProfile)
CompareProfiles ==
  /\ pc = "compare"
  /\ cmpA' = rustProfile[1]
  /\ cmpB' = solidityProfile[1]
  /\ cmpOut' = <<compare(rustProfile[1], solidityProfile[1], clock)>>
  /\ pc' = "save"
  /\ steps' = steps \o <<<<pc, "start">>, <<pc, "end">>>>
  /\ UNCHANGED <<cliVars, exitCode, auxVars, rustResult, solidityResult, rustProfile,
                 solidityProfile, callVars, obsVars>>

\* await store.save(comparison); without an export format the command ends.
SaveResults ==
  /\ pc = "save"
  /\ SaveComparison(cmpOut[1])
  /\ pc' = IF options.export # <<>> THEN "export" ELSE "done"
  /\ exitCode' = IF options.export # <<>> THEN exitCode ELSE <<0>>
  /\ steps' = steps \o <<<<pc, "start">>, <<pc, "end">>>>
  /\ UNCHANGED <<cliVars, cmpVars, rustResult, solidityResult, rustProfile,
                 solidityProfile, callVars, obsVars, clock, cmpAgain, measVars>>

\* The formats ResultExporter.export knows.
ExportFormats == {"json", "csv", "html"}

\* await exporter.export(comparison, ...): the export file is written, or the
\* format is not supported and the error ends the process in the catch.  With
\* early set, the export does not wait for the save.
ExportStep(early) ==
  /\ pc = IF early THEN "save" ELSE "export"
  /\ options.export # <<>>
  /\ IF options.export[1] \in ExportFormats
     THEN /\ outputs' = outputs \cup {[kind         |-> "export",
                                        format       |-> options.export[1],
                                        contractName |-> cmpOut[1].contractName,
                                        at           |-> clock]}
          /\ pc' = "done"
          /\ exitCode' = <<0>>
          /\ steps' = steps \o <<<<"export", "start">>, <<"export", "end">>>>
     ELSE /\ pc' = "exit1"
          /\ exitCode' = <<1>>
          /\ steps' = Append(steps, <<"export", "start">>)
          /\ UNCHANGED outputs
  /\ UNCHANGED <<options, env, auxVars, cmpVars, rustResult, solidityResult, rustProfile,
                 solidityProfile, callVars, obsVars>>

\* The export, begun while the save is still to be made.
ExportResults_beforeSave == ExportStep(TRUE)

ExportResults == ExportStep(FALSE)

\* The options of a run: whether an RPC URL is resolved, the compile flag, and
\* the export format (none, a known one, an unknown one).
RunOptions ==
  [rpcUrl : BOOLEAN, compile : BOOLEAN, export : {<<>>, <<"json">>, <<"xml">>}]

\* The head of profileCommand: without an RPC URL, or with --no-compile, the
\* process exits with 1 at once.
StartProfile ==
  /\ pc = "start"
  /\ IF options.rpcUrl /\ options.compile
     THEN pc' = "compileRust" /\ UNCHANGED exitCode
     ELSE pc' = "exit1" /\ exitCode' = <<1>>
  /\ UNCHANGED <<cliVars, steps, auxVars, cmpVars, rustResult, solidityResult,
                 rustProfile, solidityProfile, callVars, obsVars>>

InitRun ==
  /\ cmpA = <<>>
  /\ cmpB = <<>>
  /\ cmpOut = <<>>
  /\ pc = "start"
  /\ rustResult = <<>>
  /\ solidityResult = <<>>
  /\ rustProfile = <<>>
  /\ solidityProfile = <<>>
  /\ probe = "idle"
  /\ network = <<>>
  /\ blockNumber = 0
  /\ deploymentGas = 0
  /\ timer = [l \in Languages |-> "unset"]
  /\ txSent = [l \in Languages |-> 0]
  /\ timerHit = [l \in Languages |-> FALSE]
  /\ probeRejected = [l \in Languages |-> FALSE]
  /\ cmpAgain = <<>>
  /\ clock = 0
  /\ MeasIdle
  /\ StoreIdle
  /\ options \in RunOptions
  /\ env = <<>>
  /\ outputs = {}
  /\ steps = <<>>
  /\ exitCode = <<>>

NextRun ==
  \/ StartProfile
  \/ CompileRust
  \/ CompileSolidity
  \/ StartProbe
  \/ NetworkResolve
  \/ NetworkReject
  \/ \E l \in Languages : TimerFire(l)
  \/ BlockResolve
  \/ BlockReject
  \/ MeasureDeployment
  \/ MeasureFunctions
  \/ CompareProfiles
  \/ SaveResults
  \/ ExportResults

Spec == InitRun /\ [][NextRun]_vars

\* The timers are armed with setTimeout and the event loop runs them: a pending
\* timer eventually fires.  Nothing obliges the provider to answer.
FairSpec == Spec /\ \A l \in Languages : WF_vars(TimerFire(l))

----------------------------------------------------------------------------
(* Claims about the estimator and the probe, checked under Spec and FairSpec *)

\* The profile profileContract returned for language l, as <<>> or <<profile>>.
ProfileOf(l) == IF l = "rust" THEN rustProfile ELSE solidityProfile

\* The compilation profileContract was given for language l.
ResultOf(l) == IF l = "rust" THEN rustResult[1] ELSE solidityResult[1]

\* profileContract returned an estimation-mode profile for language l.
Estimated(l) == ProfileOf(l) # <<>> /\ ProfileOf(l)[1].network = "estimation"

\* profileContract returned a measured profile for language l.
Measured(l) == ProfileOf(l) # <<>> /\ ProfileOf(l)[1].network # "estimation"

\* The byte length B of the compiled bytecode of language l.
BytesOf(l) == ResultOf(l).bytecodeLen \div 2

\* C1 as stated: in estimation mode deploymentGas is 21000 + 300000 + 16*B for
\* the WASM variant and 21000 + 32000 + 200*B for the bytecode-VM variant.
C1_DeploymentGasWithOverhead ==
  \A l \in Languages :
    Estimated(l) =>
      ProfileOf(l)[1].deploymentGas =
        IF l = "rust"
        THEN 21000 + 300000 + 16 * BytesOf(l)
        ELSE 21000 + 32000 + 200 * BytesOf(l)

\* C1 as amended: in estimation mode deploymentGas is 21000 + 16*B for the WASM
\* variant and 21000 + 200*B for the bytecode-VM variant, with no overhead term.
C1_DeploymentGasPerByte ==
  \A l \in Languages :
    Estimated(l) =>
      ProfileOf(l)[1].deploymentGas =
        IF l = "rust" THEN 21000 + 16 * BytesOf(l) ELSE 21000 + 200 * BytesOf(l)

\* C1 witness: both variants were estimated, from binaries of different sizes.
C1_Witness ==
  /\ Estimated("rust")
  /\ Estimated("solidity")
  /\ BytesOf("rust") = 1
  /\ BytesOf("solidity") = 2

\* The table of section 4.1 for one variant, in the order read, write, compute,
\* oracle.
EstimationTable(l) ==
  IF l = "rust"
  THEN << [name |-> "read",    avgGas |-> 5000,  calls |-> <<100>>, executions |-> <<>>],
          [name |-> "write",   avgGas |-> 12000, calls |-> <<100>>, executions |-> <<>>],
          [name |-> "compute", avgGas |-> 8000,  calls |-> <<100>>, executions |-> <<>>],
          [name |-> "oracle",  avgGas |-> 75000, calls |-> <<100>>, executions |-> <<>>] >>
  ELSE << [name |-> "read",    avgGas |-> 6000,   calls |-> <<100>>, executions |-> <<>>],
          [name |-> "write",   avgGas |-> 20000,  calls |-> <<100>>, executions |-> <<>>],
          [name |-> "compute", avgGas |-> 15000,  calls |-> <<100>>, executions |-> <<>>],
          [name |-> "oracle",  avgGas |-> 103000, calls |-> <<100>>, executions |-> <<>>] >>

\* C2: in estimation mode functionGas is the fixed table of the variant: the four
\* keys read, write, compute, oracle in that order, the avgGas of the table and
\* 100 calls each, whatever the compiled bytecode.
C2_EstimationTable ==
  \A l \in Languages :
    Estimated(l) => ProfileOf(l)[1].functionGas = EstimationTable(l)

\* C2 witness: the candidate was estimated from the largest binary and the
\* baseline from the smallest.
C2_Witness ==
  /\ Estimated("rust")
  /\ Estimated("solidity")
  /\ BytesOf("rust") = 2
  /\ BytesOf("solidity") = 1

\* A probe query rejected: the invocation returned the estimation profile, with
\* block 0, and handed no transaction to the signer.
RejectedProbeEstimates ==
  \A l \in Languages :
    probeRejected[l] =>
      /\ txSent[l] = 0
      /\ ProfileOf(l) # <<>>
      /\ ProfileOf(l)[1].network = "estimation"
      /\ ProfileOf(l)[1].blockNumber = 0

\* C7: when a probe query rejects or the timer fires during the probe, the
\* invocation returns an estimation-mode profile (network 'estimation',
\* blockNumber 0) and sends no transaction.
C7_FailedProbeEstimates ==
  \A l \in Languages :
    (probeRejected[l] \/ timerHit[l]) =>
      /\ txSent[l] = 0
      /\ ProfileOf(l) # <<>> =>
           /\ ProfileOf(l)[1].network = "estimation"
           /\ ProfileOf(l)[1].blockNumber = 0

\* C8: the whole probe is raced against the timer: a timer that fires before
\* both queries completed selects estimation mode, and measurement mode is
\* selected only when no query failed and the timer had not fired.
C8_WholeProbeRaced ==
  \A l \in Languages :
    /\ (timerHit[l] /\ ProfileOf(l) # <<>>) => Estimated(l)
    /\ Measured(l) => ~timerHit[l] /\ ~probeRejected[l]

\* The probe step of profileContract is under way.
Probing == probe \in {"awaitNetwork", "awaitBlock"}

\* C9: given that the timer eventually fires, profileContract eventually leaves
\* the probe step, whatever the provider does.
C9_ProbeTerminates == Probing ~> ~Probing

\* C10: once the run's comparison is built, a candidate profile in estimation
\* mode comes with a baseline profile in estimation mode.
C10_OneModePerRun ==
  cmpOut # <<>> =>
    (cmpA.network = "estimation" => cmpB.network = "estimation")

----------------------------------------------------------------------------
(* Claims about the choice of mode and the deployment, checked under Spec *)

\* The categories of the estimation table.
EstimationNames == {"read", "write", "compute", "oracle"}

\* C11 as stated: measurement mode needs a reachable network and test cases;
\* without test cases profileContract returns the estimation-mode profile and
\* sends nothing.
C11_MeasuresOnlyWithTestCases ==
  \A l \in Languages :
    (ProfileOf(l) # <<>> /\ testCases = <<>>) =>
      /\ Estimated(l)
      /\ txSent[l] = 0
      /\ MapKeys(ProfileOf(l)[1].functionGas) = EstimationNames

\* C11, amended: the probe alone selects the mode.  Without test cases a
\* profile is estimation-mode only when a probe query was rejected or the
\* timer fired during the probe; when no probe query was rejected and the
\* timer did not fire, the profile is a measured one, made after exactly one
\* deployment transaction, with an empty functionGas.
C11_ProbeSelectsMode ==
  \A l \in Languages :
    (ProfileOf(l) # <<>> /\ testCases = <<>>) =>
      /\ Estimated(l) => (probeRejected[l] \/ timerHit[l])
      /\ Measured(l) =>
           /\ ~probeRejected[l]
           /\ txSent[l] = 1
           /\ ProfileOf(l)[1].functionGas = <<>>
           /\ callLog[l] # <<>> /\ callLog[l][1].deploy = "none"

\* A reachable network, no test cases, and a measured profile all the same.
C11_Witness ==
  /\ testCases = <<>>
  /\ Measured("solidity")
  /\ ~probeRejected["solidity"] /\ ~timerHit["solidity"]
  /\ solidityProfile[1].network = "arbitrum-sepolia"
  /\ solidityProfile[1].deploymentGas = 53000
  /\ solidityProfile[1].functionGas = <<>>

\* C15: a deployment that fails during the measurement gives deploymentGas 0
\* and is not propagated: the invocation goes on to the function measurement,
\* the process is not ended, and the profile it returns is a measured one
\* with deploymentGas 0.  (After such a run the process can still end with 1,
\* but only in the export that follows the save.)
C15_DeploymentFailureContained ==
  \A l \in Languages :
    deployFailed[l] =>
      /\ pc = "exit1" => steps[Len(steps)] = <<"export", "start">>
      /\ (Profiling /\ Running = l) => (probe = "measureFunctions" /\ deploymentGas = 0)
      /\ ~(Profiling /\ Running = l) =>
           (Measured(l) /\ ProfileOf(l)[1].deploymentGas = 0)

\* A run that ended with a profile whose deployment had failed.
C15_Witness ==
  /\ pc = "done"
  /\ deployFailed["solidity"]
  /\ Measured("solidity")
  /\ solidityProfile[1].deploymentGas = 0
  /\ callLog["solidity"] # <<>>

----------------------------------------------------------------------------
(* Claims about measureFunctionGas, checked under SpecMeasure *)

\* The compilation measureFunctionGas was given for language l.
ArgOf(l) == IF l = "rust" THEN rustResult[1] ELSE solidityResult[1]

\* measureFunctionGas ran its loop over the test cases for language l.
LoopRan(l) == callLog[l] # <<>> /\ callLog[l][1].deploy = "ok"

\* The calls of the k-th function that succeeded, for language l.
Successes(l, k) ==
  {i \in 1..Len(callLog[l][1].outcomes[k]) : callLog[l][1].outcomes[k][i] # <<>>}

\* The gas of all calls of the k-th function, a failed call counting 0.
GasTotal(l, k) ==
  FnSum([i \in 1..Len(callLog[l][1].outcomes[k]) |->
           IF callLog[l][1].outcomes[k][i] = <<>> THEN 0
           ELSE callLog[l][1].outcomes[k][i][1]])

\* C12 as stated: a function with n > 0 input lists records executions = n
\* and avgGas = (sum of gasUsed over all n cases, failed ones as 0) / n.
C12_FailuresInDenominator ==
  \A l \in Languages :
    LoopRan(l) =>
      \A k \in 1..Len(testCases[1]) :
        LET n  == Len(testCases[1][k].inputs)
            fg == callLog[l][1].functionGas
        IN  n > 0 =>
              /\ MapHas(fg, testCases[1][k].name)
              /\ MapGet(fg, testCases[1][k].name).executions = <<n>>
              /\ MapGet(fg, testCases[1][k].name).avgGas = RatNorm(GasTotal(l, k), n)

\* C12, amended: a function with s > 0 successful cases records executions = s
\* and avgGas = gasUsed = (sum of gasUsed over the successful cases) / s, and
\* a function with no successful case gets no entry.
C12_SuccessesInDenominator ==
  \A l \in Languages :
    LoopRan(l) =>
      \A k \in 1..Len(testCases[1]) :
        LET succ == Cardinality(Successes(l, k))
            fg   == callLog[l][1].functionGas
            name == testCases[1][k].name
        IN  IF succ > 0
            THEN /\ MapHas(fg, name)
                 /\ MapGet(fg, name).executions = <<succ>>
                 /\ MapGet(fg, name).avgGas = RatNorm(GasTotal(l, k), succ)
                 /\ MapGet(fg, name).gasUsed = MapGet(fg, name).avgGas
            ELSE ~MapHas(fg, name)

\* A function with two cases of which one failed: executions is 1.
C12_Witness ==
  /\ LoopRan("solidity")
  /\ \E k \in 1..Len(testCases[1]) :
       /\ Len(testCases[1][k].inputs) = 2
       /\ Cardinality(Successes("solidity", k)) = 1
       /\ MapHas(callLog["solidity"][1].functionGas, testCases[1][k].name)
       /\ MapGet(callLog["solidity"][1].functionGas, testCases[1][k].name).executions = <<1>>

\* C13: every entry of a measured functionGas with executions > 0 has
\* minGas <= avgGas <= maxGas.
C13_MinAvgMax ==
  \A l \in Languages :
    callLog[l] # <<>> =>
      \A i \in 1..Len(callLog[l][1].functionGas) :
        LET e == callLog[l][1].functionGas[i]
        IN  (e.executions # <<>> /\ e.executions[1] > 0) =>
              /\ e.minGas * e.avgGas.d <= e.avgGas.n
              /\ e.avgGas.n <= e.maxGas * e.avgGas.d

\* An entry whose mean lies strictly between its least and its largest gas,
\* the larger one measured first.
C13_Witness ==
  /\ LoopRan("solidity")
  /\ \E i \in 1..Len(callLog["solidity"][1].functionGas) :
       LET e == callLog["solidity"][1].functionGas[i]
       IN  /\ e.executions = <<2>>
           /\ e.minGas = 30
           /\ e.maxGas = 45
           /\ e.avgGas = [n |-> 75, d |-> 2]
           /\ e.testCases[1].gasUsed = 45

\* C14 as stated: for both languages the keys of the measured functionGas are
\* the function names of the supplied test cases.
C14_KeysAreTestNames ==
  \A l \in Languages :
    (callLog[l] # <<>> /\ testCases # <<>>) =>
      MapKeys(callLog[l][1].functionGas) = MapKeys(testCases[1])

\* C14, amended: the keys are test-case names, never more.  For the Solidity
\* variant with an abi whose measurement contract was deployed they are the
\* names with at least one successful call, in the order of the test cases;
\* for the Rust variant, without an abi, or when that deployment failed, the
\* map is empty.
C14_KeysAreMeasuredNames ==
  \A l \in Languages :
    (callLog[l] # <<>> /\ testCases # <<>>) =>
      LET fg == callLog[l][1].functionGas
      IN  IF l = "solidity" /\ ArgOf(l).abi /\ callLog[l][1].deploy = "ok"
          THEN /\ MapKeys(fg) =
                    {testCases[1][k].name : k \in {j \in 1..Len(testCases[1]) :
                                                     Successes(l, j) # {}}}
               /\ \A i, j \in 1..Len(fg) :
                    i < j => MapIndex(testCases[1], fg[i].name)
                               < MapIndex(testCases[1], fg[j].name)
          ELSE fg = <<>>

\* Two functions were tested, one of them with a failure among its calls and
\* the other with failures only: one key.
C14_Witness ==
  /\ LoopRan("solidity")
  /\ callLog["rust"] # <<>>
  /\ Len(testCases[1]) = 2
  /\ Len(callLog["solidity"][1].functionGas) = 1
  /\ \E k \in 1..2 : Cardinality(Successes("solidity", k)) = 1
                        /\ Len(testCases[1][k].inputs) = 2
  /\ \E k \in 1..2 : Successes("solidity", k) = {}
                        /\ Len(testCases[1][k].inputs) = 2

----------------------------------------------------------------------------
(* Claims about two calls of compare, checked under SpecTwice *)

ComputedFields == {"contractName", "rustProfile", "solidityProfile", "savings", "tco"}

----------------------------------------------------------------------------
(* Claims about the results store, checked under SpecStore *)

\* The position in saveLog of the latest save that wrote file f.
LastSaveOf(f) ==
  CHOOSE i \in 1..Len(saveLog) :
    /\ saveLog[i].file = f
    /\ \A j \in 1..Len(saveLog) : saveLog[j].file = f => j <= i

\* The last call of the store was op.
Answered(op) == opResult # <<>> /\ opResult[1].op = op

\* C17: deserializeComparison(serializeComparison(c)) is c again: the three
\* category mappings have the same keys and values in the same order and every
\* other field is identical; so a load returns the comparison last saved under
\* the file name.
C17_RoundTrip ==
  /\ \A i \in 1..Len(saveLog) :
       LET c    == saveLog[i].comparison
           back == deserializeComparison(serializeComparison(c))
       IN  /\ back.rustProfile.functionGas = c.rustProfile.functionGas
           /\ back.solidityProfile.functionGas = c.solidityProfile.functionGas
           /\ back.savings.functionSavings = c.savings.functionSavings
           /\ back = c
  /\ (Answered("load") /\ opResult[1].found) =>
       opResult[1].value = <<saveLog[LastSaveOf(opResult[1].arg)].comparison>>

\* A saved comparison with four categories in each mapping was loaded; what
\* the file holds is not the comparison itself.
C17_Witness ==
  /\ Answered("load")
  /\ opResult[1].found
  /\ Len(opResult[1].value[1].rustProfile.functionGas) = 4
  /\ Len(opResult[1].value[1].savings.functionSavings) = 4
  /\ opResult[1].value[1].savings.functionSavings[1].name = "read"
  /\ ContentOf(archive, opResult[1].arg) # opResult[1].value[1]
  /\ ContentOf(archive, opResult[1].arg).savings.functionSavings[1][1] = "read"

\* C18: save is append-only: a save never writes over a file that exists, and
\* as long as nothing was deleted the directory holds one snapshot per save.
C18_AppendOnly ==
  /\ Answered("save") => ~opResult[1].found
  /\ (\A i \in 1..Len(saveLog) : saveLog[i].file \in FilesOf(archive)) =>
       Cardinality(archive) = Len(saveLog)

\* C19 as stated: load and delete both raise an error when the named file is
\* missing.
C19_MissingFileRaises ==
  ((Answered("load") \/ Answered("delete")) /\ ~opResult[1].found) =>
    opResult[1].error

\* C19, amended: load raises an error exactly when the named file is missing;
\* delete never raises, and with a missing file it returns normally; in both
\* cases a missing file leaves the directory unchanged.
C19_OnlyLoadRaises ==
  /\ [](/\ Answered("load") => (opResult[1].error <=> ~opResult[1].found)
        /\ Answered("delete") => ~opResult[1].error)
  /\ [][(opResult' # <<>> /\ opResult'[1].op \in {"load", "delete"}
            /\ clock' = clock) =>
          /\ opResult' # opResult =>
               (opResult'[1].found <=> opResult'[1].arg \in FilesOf(archive))
          /\ ~opResult'[1].found => archive' = archive
          /\ (opResult'[1].op = "delete" /\ opResult'[1].found) =>
               FilesOf(archive') = FilesOf(archive) \ {opResult'[1].arg}]_vars

\* delete was called with a file name the directory, which is not empty, does
\* not hold, and returned normally.
C19_Witness ==
  /\ Answered("delete")
  /\ ~opResult[1].found
  /\ ~opResult[1].error
  /\ archive # {}

\* The position in saveLog of the latest save whose file is still there.
NewestKept ==
  CHOOSE i \in 1..Len(saveLog) :
    /\ saveLog[i].file \in FilesOf(archive)
    /\ \A j \in 1..Len(saveLog) : saveLog[j].file \in FilesOf(archive) => j <= i

\* C20: list answers with the snapshots newest first, whatever their contract
\* names, and getLatest() answers with the snapshot saved last.
C20_NewestFirst ==
  /\ Answered("list") =>
       \A i, j \in 1..Len(opResult[1].value) :
         i < j => saveLog[LastSaveOf(opResult[1].value[i])].at
                    >= saveLog[LastSaveOf(opResult[1].value[j])].at
  /\ (Answered("getLatest") /\ opResult[1].arg = <<>> /\ archive # {}) =>
       opResult[1].value = <<saveLog[NewestKept].comparison>>

----------------------------------------------------------------------------
(* Claims about the steps of profileCommand, checked under Spec *)

\* A compilation of the run has failed.
CompilationFailed ==
  \/ rustResult # <<>> /\ ~rustResult[1].success
  \/ solidityResult # <<>> /\ ~solidityResult[1].success

\* C21: when a compilation result has success = FALSE the process exits with
\* code 1 as soon as both compilers have answered, and nothing comes of the
\* run: profileContract is not called (no probe, no timer, no transaction, no
\* profile), no ComparisonResult is built, and nothing is written to the
\* results directory or exported.
C21_CompilationFailureStops ==
  CompilationFailed =>
    /\ pc \in {"compileSolidity", "exit1"}
    /\ solidityResult # <<>> => (pc = "exit1" /\ exitCode = <<1>>)
    /\ rustProfile = <<>> /\ solidityProfile = <<>>
    /\ probe = "idle"
    /\ \A l \in Languages : timer[l] = "unset" /\ txSent[l] = 0
    /\ cmpOut = <<>>
    /\ archive = {} /\ saveLog = <<>>
    /\ outputs = {}

\* The candidate compiled, the baseline did not, and the process has exited.
C21_Witness ==
  /\ pc = "exit1"
  /\ exitCode = <<1>>
  /\ rustResult # <<>> /\ rustResult[1].success
  /\ solidityResult # <<>> /\ ~solidityResult[1].success
  /\ options.export = <<"json">>

\* The steps of a successful run, each begun and ended, in their order.
RunOrder ==
  << <<"compileRust", "start">>,     <<"compileRust", "end">>,
     <<"compileSolidity", "start">>, <<"compileSolidity", "end">>,
     <<"profileRust", "start">>,     <<"profileRust", "end">>,
     <<"profileSolidity", "start">>, <<"profileSolidity", "end">>,
     <<"compare", "start">>,         <<"compare", "end">>,
     <<"save", "start">>,            <<"save", "end">>,
     <<"export", "start">>,          <<"export", "end">> >>

\* C24: the steps of a run are begun and ended one after the other in the
\* order compile candidate, compile baseline, profile candidate, profile
\* baseline, compare, save, export, no step beginning before the one before it
\* has ended; the results directory is written only once both profiles and the
\* comparison exist, and the export only once the comparison is saved.
C24_StepsInOrder ==
  /\ Len(steps) <= Len(RunOrder)
  /\ \A i \in 1..Len(steps) : steps[i] = RunOrder[i]
  /\ archive # {} =>
       /\ rustProfile # <<>> /\ solidityProfile # <<>> /\ cmpOut # <<>>
       /\ Len(saveLog) = 1
       /\ saveLog[1].comparison = cmpOut[1]
       /\ saveLog[1].comparison.rustProfile = rustProfile[1]
       /\ saveLog[1].comparison.solidityProfile = solidityProfile[1]
  /\ outputs # {} => archive # {}
  /\ pc = "done" =>
       steps = IF options.export = <<>> THEN SubSeq(RunOrder, 1, 12) ELSE RunOrder

\* A run that went through all seven steps and ended.
C24_Witness ==
  /\ pc = "done"
  /\ exitCode = <<0>>
  /\ steps = RunOrder
  /\ Cardinality(archive) = 1
  /\ Cardinality(outputs) = 1

----------------------------------------------------------------------------
(* buildCommand, devCommand, deployCommand, initCommand *)

\* Everything but the command's own state stays as it is.
CliFrame ==
  UNCHANGED <<options, env, cmpVars, rustResult, solidityResult, rustProfile,
              solidityProfile, callVars, obsVars, auxVars>>

\* process.exit(code), or the return of the command (code 0).
Exit(code) ==
  /\ pc' = "exited"
  /\ exitCode' = <<code>>

\* One external process the command started: its program and what matters of
\* its arguments.
Call(program, args) == [kind |-> "call", program |-> program, args |-> args]

\* --- buildCommand ---

\* --no-check clears options.check.
BuildOptions == [check : BOOLEAN]

\* What buildCommand finds: the contracts-rust directory, cargo, the wasm32
\* target (listed or installed on the spot), the outcome of cargo build, the
\* .wasm file, cargo-stylus, and the outcome of cargo stylus check.
BuildEnvs ==
  {e \in [rustProject : BOOLEAN, cargo : BOOLEAN, wasmTarget : BOOLEAN,
          buildOk : BOOLEAN, wasmFile : BOOLEAN, cargoStylus : BOOLEAN,
          checkOk : BOOLEAN] :
     /\ e.cargoStylus => e.cargo
     /\ e.buildOk => (e.cargo /\ e.wasmTarget /\ e.rustProject)
     /\ e.checkOk => (e.cargoStylus /\ e.wasmFile)}

\* The exit code of buildCommand: 1 without the project, without cargo,
\* without the wasm32 target or when cargo build fails; a failing or missing
\* cargo stylus check is reported and the build completes.
buildExitCode(o, e) ==
  IF ~e.rustProject THEN 1
  ELSE IF ~e.cargo THEN 1
  ELSE IF ~e.wasmTarget THEN 1
  ELSE IF ~e.buildOk THEN 1
  ELSE 0

\* The processes buildCommand starts, in order.
buildCalls(o, e) ==
  IF ~e.rustProject THEN <<>>
  ELSE <<Call("cargo", "--version")>> \o
       (IF ~e.cargo THEN <<>>
        ELSE <<Call("rustup", "target")>> \o
             (IF ~e.wasmTarget THEN <<>>
              ELSE <<Call("cargo", "build")>> \o
                   (IF e.buildOk /\ o.check /\ e.wasmFile
                    THEN <<Call("cargo", "stylus check")>>
                    ELSE <<>>)))

BuildCommand ==
  /\ pc = "build"
  /\ outputs' = outputs \cup {[kind |-> "calls", calls |-> buildCalls(options, env)]}
  /\ Exit(buildExitCode(options, env))
  /\ steps' = Append(steps, <<"build", "start">>)
  /\ CliFrame

\* --- devCommand ---

DevOptions == [detach : BOOLEAN]

\* What devCommand finds: docker, and whether docker run succeeds.
DevEnvs == {e \in [docker : BOOLEAN, runOk : BOOLEAN] : e.runOk => e.docker}

\* Without docker, devCommand lists the alternatives and calls process.exit(0).
DevCheckDocker ==
  /\ pc = "dev"
  /\ IF env.docker
     THEN pc' = "devRun" /\ UNCHANGED exitCode
     ELSE Exit(0)
  /\ outputs' = outputs \cup {Call("docker", "--version")}
  /\ steps' = Append(steps, <<"dev", "start">>)
  /\ CliFrame

\* docker run, detached or in the foreground until the node stops; a failure
\* is caught and the process exits with 1.
DevRun ==
  /\ pc = "devRun"
  /\ outputs' = outputs \cup {Call("docker", IF options.detach THEN "run -d" ELSE "run")}
  /\ Exit(IF env.runOk THEN 0 ELSE 1)
  /\ UNCHANGED steps
  /\ CliFrame

\* --- deployCommand ---

baseGas == 21000

activationGas == 14000000

perByteGas == 16

\* safetyMultiplier = 2.5
safetyMultiplier == [n |-> 5, d |-> 2]

\* Math.ceil of a rational.
RatCeil(p) == -((-p.n) \div p.d)

\* estimatedGas = Math.ceil(baseGas + activationGas + wasmSizeBytes * perByteGas * safetyMultiplier)
calculatedGas(wasmSizeBytes) ==
  RatCeil(RatAdd(RatOfInt(baseGas + activationGas),
                 RatMulInt(safetyMultiplier, wasmSizeBytes * perByteGas)))

\* gasWithBuffer = Math.ceil(networkEstimate * 1.5)
gasWithBuffer(networkEstimate) == RatCeil(RatNorm(networkEstimate * 3, 2))

Max(a, b) == IF a >= b THEN a ELSE b

\* The gas limit after the estimation block: the user's when one is given,
\* else the calculated estimate, raised to the buffered network estimate when
\* the estimation call printed one.  With the mutant, the network's figure wins.
deployGasLimit_networkOnly(userGasLimit, wasmSizeBytes, networkEstimate) ==
  IF userGasLimit # <<>> THEN userGasLimit[1]
  ELSE IF networkEstimate # <<>>
       THEN gasWithBuffer(networkEstimate[1])
       ELSE calculatedGas(wasmSizeBytes)

deployGasLimit(userGasLimit, wasmSizeBytes, networkEstimate) ==
  IF userGasLimit # <<>> THEN userGasLimit[1]
  ELSE IF networkEstimate # <<>>
       THEN Max(calculatedGas(wasmSizeBytes), gasWithBuffer(networkEstimate[1]))
       ELSE calculatedGas(wasmSizeBytes)

\* The gas limits a user gives, and the estimates the network prints: below
\* and above the calculated estimate, odd ones included.
UserGasLimits == {<<>>, <<1>>, <<30000000>>}

NetworkEstimates == {<<>>, <<1>>, <<9347361>>, <<20000001>>}

DeployOptions ==
  [privateKey : BOOLEAN, privateKeyPath : BOOLEAN, gasLimit : UserGasLimits,
   estimateOnly : BOOLEAN]

\* What deployCommand finds: the contracts-rust directory, cargo-stylus, the
\* .wasm file (<<>> when there is none, else its size in bytes), what the
\* estimation call prints and whether the deployment succeeds.
DeployEnvs ==
  {e \in [rustProject : BOOLEAN, cargoStylus : BOOLEAN,
          wasm : {<<>>} \cup {<<b>> : b \in 0..MaxBytes},
          networkEstimate : NetworkEstimates, deployOk : BOOLEAN] :
     /\ e.networkEstimate # <<>> => (e.cargoStylus /\ e.wasm # <<>>)
     /\ e.deployOk => (e.cargoStylus /\ e.wasm # <<>>)}

\* The checks at the head of deployCommand, each ending the process with 1:
\* the project, cargo-stylus, a private key or the path of one, the .wasm file.
DeployCheck ==
  /\ pc = "deploy"
  /\ IF ~env.rustProject THEN Exit(1) /\ UNCHANGED outputs
     ELSE /\ outputs' = outputs \cup {Call("cargo", "stylus --version")}
          /\ IF ~env.cargoStylus THEN Exit(1)
             ELSE IF ~options.privateKey /\ ~options.privateKeyPath THEN Exit(1)
             ELSE IF env.wasm = <<>> THEN Exit(1)
             ELSE pc' = "deployEstimate" /\ UNCHANGED exitCode
  /\ steps' = Append(steps, <<"deploy", "start">>)
  /\ CliFrame

\* The estimation block: without a gas limit of the user, cargo stylus deploy
\* --estimate-gas is called; with estimateOnly the command returns.
DeployEstimate ==
  /\ pc = "deployEstimate"
  /\ outputs' = IF options.gasLimit = <<>>
                THEN outputs \cup {Call("cargo", "stylus deploy --estimate-gas")}
                ELSE outputs
  /\ IF options.estimateOnly
     THEN Exit(0)
     ELSE pc' = "deploySend" /\ UNCHANGED exitCode
  /\ UNCHANGED steps
  /\ CliFrame

\* cargo stylus deploy with --gas-limit; its failure ends the process with 1.
DeploySend ==
  /\ pc = "deploySend"
  /\ outputs' = outputs \cup
       {[kind |-> "deployment",
         gasLimit |-> deployGasLimit(options.gasLimit, env.wasm[1], env.networkEstimate)]}
  /\ Exit(IF env.deployOk THEN 0 ELSE 1)
  /\ UNCHANGED steps
  /\ CliFrame

\* --- initCommand ---

InitOptions == [rustOnly : BOOLEAN, solidityOnly : BOOLEAN]

\* What initCommand finds: whether the name and the template are valid, and
\* the languages ticked in the checkbox, which accepts no empty selection.
InitEnvs == [valid : BOOLEAN, languages : (SUBSET Languages) \ {{}}]

\* options.rustOnly and options.solidityOnly after the prompts: the checkbox
\* is shown only when neither flag is set.
afterPrompts(o, e) ==
  IF ~o.rustOnly /\ ~o.solidityOnly
  THEN [rustOnly     |-> "rust" \in e.languages /\ "solidity" \notin e.languages,
        solidityOnly |-> "solidity" \in e.languages /\ "rust" \notin e.languages]
  ELSE o

\* FileSystem.createProjectStructure and TemplateGenerator.generate: the
\* directories of the project.
createProjectStructure(hasRust, hasSolidity) ==
  (IF hasRust THEN {"contracts-rust", "contracts-rust/src"} ELSE {})
    \cup (IF hasSolidity THEN {"contracts-solidity"} ELSE {})
    \cup {"test", "scripts", ".stylus-toolkit"}

InitCommand ==
  /\ pc = "init"
  /\ IF ~env.valid
     THEN Exit(1) /\ UNCHANGED outputs
     ELSE LET o           == afterPrompts(options, env)
              hasRust     == ~o.solidityOnly
              hasSolidity == ~o.rustOnly
          IN  /\ outputs' = outputs \cup
                   {[kind   |-> "project",
                     dirs   |-> createProjectStructure(hasRust, hasSolidity),
                     config |-> [hasRust |-> hasRust, hasSolidity |-> hasSolidity]]}
              /\ Exit(0)
  /\ steps' = Append(steps, <<"init", "start">>)
  /\ CliFrame

\* --- one command per process ---

InitCli ==
  /\ cmpA = <<>>
  /\ cmpB = <<>>
  /\ cmpOut = <<>>
  /\ rustResult = <<>>
  /\ solidityResult = <<>>
  /\ rustProfile = <<>>
  /\ solidityProfile = <<>>
  /\ probe = "idle"
  /\ network = <<>>
  /\ blockNumber = 0
  /\ deploymentGas = 0
  /\ timer = [l \in Languages |-> "unset"]
  /\ txSent = [l \in Languages |-> 0]
  /\ timerHit = [l \in Languages |-> FALSE]
  /\ probeRejected = [l \in Languages |-> FALSE]
  /\ MeasIdle
  /\ StoreIdle
  /\ cmpAgain = <<>>
  /\ clock = 0
  /\ outputs = {}
  /\ steps = <<>>
  /\ exitCode = <<>>
  /\ \/ pc = "build"  /\ options \in BuildOptions  /\ env \in BuildEnvs
     \/ pc = "dev"    /\ options \in DevOptions    /\ env \in DevEnvs
     \/ pc = "deploy" /\ options \in DeployOptions /\ env \in DeployEnvs
     \/ pc = "init"   /\ options \in InitOptions   /\ env \in InitEnvs

NextCli ==
  \/ BuildCommand
  \/ DevCheckDocker
  \/ DevRun
  \/ DeployCheck
  \/ DeployEstimate
  \/ DeploySend
  \/ InitCommand

SpecCli == InitCli /\ [][NextCli]_vars

----------------------------------------------------------------------------
(* Claims about the commands, checked under SpecCli *)

\* The command that runs, once it began.
Began(command) == steps # <<>> /\ Head(steps)[1] = command

\* The command looked for a tool of its toolchain and did not find it: cargo
\* or cargo-stylus for build, docker for dev, cargo-stylus for deploy.
ToolMissing ==
  \/ /\ Began("build")
     /\ \/ env.rustProject /\ ~env.cargo
        \/ /\ \E o \in outputs :
                o.kind = "calls" /\ \E i \in 1..Len(o.calls) : o.calls[i].args = "stylus check"
           /\ ~env.cargoStylus
  \/ Began("dev") /\ ~env.docker
  \/ Began("deploy") /\ env.rustProject /\ ~env.cargoStylus

\* C22: a command that misses a tool of its toolchain (cargo, cargo-stylus,
\* docker) ends with a nonzero exit code.
C22_MissingToolExitsNonzero ==
  (exitCode # <<>> /\ ToolMissing) => exitCode # <<0>>

\* The deployments issued: cargo stylus deploy without --estimate-gas.
Deployments == {o \in outputs : o.kind = "deployment"}

\* C29: a deployment is issued only with a private key or the path of one and
\* without estimateOnly; without a key the process ends with 1, with
\* estimateOnly it ends without a deployment; and a gas limit that is not the
\* user's is at least 21000 + 14000000 + 40 * wasmSizeBytes.
C29_DeploymentGuarded ==
  /\ \A d \in Deployments :
       /\ options.privateKey \/ options.privateKeyPath
       /\ ~options.estimateOnly
       /\ options.gasLimit = <<>> => d.gasLimit >= 21000 + 14000000 + 40 * env.wasm[1]
  /\ (Began("deploy") /\ ~options.privateKey /\ ~options.privateKeyPath) =>
       exitCode \in {<<>>, <<1>>}

\* A deployment whose gas limit was computed with a network estimate below
\* the calculated one, for a binary that is not empty.
C29_Witness ==
  /\ Deployments # {}
  /\ options.gasLimit = <<>>
  /\ env.networkEstimate = <<1>>
  /\ env.wasm[1] > 0

\* C30: a project that initCommand created has at least one language: its
\* config has hasRust or hasSolidity, and contracts-rust or
\* contracts-solidity is among its directories.
C30_AtLeastOneLanguage ==
  \A o \in outputs :
    o.kind = "project" =>
      /\ o.config.hasRust \/ o.config.hasSolidity
      /\ o.dirs \cap {"contracts-rust", "contracts-solidity"} # {}

----------------------------------------------------------------------------
(* estimateGasProfile applied to arbitrary bytecode strings *)

\* The lengths of the bytecode strings handed to the estimator: every number
\* of hex characters up to one more than a binary of MaxBytes bytes takes,
\* the odd ones included.
HexLengths == 0..(2 * MaxBytes + 1)

\* The compilations handed to the estimator for one language.
EstimateArgs(language) ==
  [success : {TRUE}, contractName : {NameA, NameAB}, language : {language},
   bytecodeLen : HexLengths, abi : {language = "solidity"}]

InitEstimate ==
  /\ cmpA = <<>>
  /\ cmpB = <<>>
  /\ cmpOut = <<>>
  /\ cmpAgain = <<>>
  /\ clock = 0
  /\ pc = "idle"
  /\ rustResult \in {<<c>> : c \in EstimateArgs("rust")}
  /\ solidityResult \in {<<c>> : c \in EstimateArgs("solidity")}
  /\ rustProfile = <<>>
  /\ solidityProfile = <<>>
  /\ probe = "idle"
  /\ network = <<>>
  /\ blockNumber = 0
  /\ deploymentGas = 0
  /\ timer = [l \in Languages |-> "unset"]
  /\ txSent = [l \in Languages |-> 0]
  /\ timerHit = [l \in Languages |-> FALSE]
  /\ probeRejected = [l \in Languages |-> FALSE]
  /\ MeasIdle
  /\ StoreIdle
  /\ CliIdle

\* estimateGasProfile(compilation) for the compilation of language l
EstimateGasProfile(l) ==
  /\ pc = "idle"
  /\ IF l = "rust"
     THEN /\ rustProfile = <<>>
          /\ rustProfile' = <<estimateGasProfile(rustResult[1])>>
          /\ UNCHANGED solidityProfile
     ELSE /\ solidityProfile = <<>>
          /\ solidityProfile' = <<estimateGasProfile(solidityResult[1])>>
          /\ UNCHANGED rustProfile
  /\ UNCHANGED <<cliVars, steps, exitCode, cmpVars, pc, rustResult, solidityResult,
                 callVars, obsVars, auxVars>>

NextEstimate == \E l \in Languages : EstimateGasProfile(l)

SpecEstimate == InitEstimate /\ [][NextEstimate]_vars

----------------------------------------------------------------------------
(* Claims about the estimator's arithmetic, checked under SpecEstimate *)

\* C23: the estimator counts floor(L/2) bytes for a bytecode string of L hex
\* characters, odd L included: deploymentGas is 21000 plus the per-byte rate
\* times floor(L/2), the same for L = 2k and L = 2k + 1.
C23_ByteCountTruncated ==
  \A l \in Languages :
    Estimated(l) =>
      ProfileOf(l)[1].deploymentGas =
        21000 + (IF l = "rust" THEN 16 ELSE 200) * (ResultOf(l).bytecodeLen \div 2)

----------------------------------------------------------------------------
(* Claims about the records of the test loop, checked under SpecMeasure *)

\* The record of the i-th call of the k-th function is what the call met:
\* its name and inputs, and gasUsed 0 with the error when it failed, the gas
\* of its receipt and no error when it succeeded.
RecordMatches(l, k, rec, i) ==
  LET outcome == callLog[l][1].outcomes[k][i]
  IN  /\ rec.name = <<"Test", i>>
      /\ rec.inputs = testCases[1][k].inputs[i]
      /\ rec.success = (outcome # <<>>)
      /\ IF outcome = <<>>
         THEN rec.gasUsed = 0 /\ rec.error
         ELSE rec.gasUsed = outcome[1] /\ ~rec.error

\* The k-th function has an entry whose testCases are the records of all its
\* calls, in input order.
RecordsKept(l, k) ==
  LET fg   == callLog[l][1].functionGas
      name == testCases[1][k].name
  IN  /\ MapHas(fg, name)
      /\ Len(MapGet(fg, name).testCases) = Len(testCases[1][k].inputs)
      /\ \A i \in 1..Len(testCases[1][k].inputs) :
           RecordMatches(l, k, MapGet(fg, name).testCases[i], i)

\* Every call of every function was made: one transaction for the deployment
\* and one for each input list.
AllAttempted(l) ==
  txSent[l] = 1 + FnSum([k \in 1..Len(testCases[1]) |-> Len(testCases[1][k].inputs)])

\* C25 as stated: a failing call does not end the loop, and a function with
\* n > 0 input lists has n records in input order in its testCases.
C25_AllRecordsKept ==
  \A l \in Languages :
    LoopRan(l) =>
      /\ AllAttempted(l)
      /\ \A k \in 1..Len(testCases[1]) :
           Len(testCases[1][k].inputs) > 0 => RecordsKept(l, k)

\* C25, amended: a failing call does not end the loop; a function with at
\* least one call that succeeded has one record per input list, in input
\* order, and a function whose calls all failed has no entry, so that its
\* records are not kept.
C25_RecordsKeptWhenMeasured ==
  \A l \in Languages :
    LoopRan(l) =>
      /\ AllAttempted(l)
      /\ \A k \in 1..Len(testCases[1]) :
           IF Successes(l, k) # {}
           THEN RecordsKept(l, k)
           ELSE ~MapHas(callLog[l][1].functionGas, testCases[1][k].name)

\* A function whose first call failed and whose second call succeeded: two
\* records, the first one failed.
C25_Witness ==
  /\ LoopRan("solidity")
  /\ \E k \in 1..Len(testCases[1]) :
       /\ Len(testCases[1][k].inputs) = 2
       /\ Successes("solidity", k) = {2}
       /\ RecordsKept("solidity", k)
       /\ ~MapGet(callLog["solidity"][1].functionGas, testCases[1][k].name).testCases[1].success

----------------------------------------------------------------------------
(* The comparator applied to categories with a count of zero *)

\* Entry payloads with every kind of count: none, calls of 0 or more,
\* executions of 0 or more, and both.
TcoData ==
  { [avgGas |-> 5, calls |-> <<>>,  executions |-> <<>>],
    [avgGas |-> 5, calls |-> <<0>>, executions |-> <<>>],
    [avgGas |-> 6, calls |-> <<>>,  executions |-> <<0>>],
    [avgGas |-> 7, calls |-> <<0>>, executions |-> <<3>>],
    [avgGas |-> 5, calls |-> <<4>>, executions |-> <<>>],
    [avgGas |-> 6, calls |-> <<>>,  executions |-> <<3>>] }

\* The empty map and every map of one entry.
TcoMaps ==
  {<<>>} \cup
  {<<[name |-> n, avgGas |-> d.avgGas, calls |-> d.calls, executions |-> d.executions]>> :
     n \in {"read", "write"}, d \in TcoData}

InitTco ==
  /\ cmpA \in {CmpProfile("rust", 3, m) : m \in TcoMaps}
  /\ cmpB \in {CmpProfile("solidity", 8, m) : m \in TcoMaps}
  /\ cmpOut = <<>>
  /\ cmpAgain = <<>>
  /\ clock = 0
  /\ RunIdle
  /\ MeasIdle
  /\ StoreIdle
  /\ CliIdle

SpecTco == InitTco /\ [][NextCmp]_vars

----------------------------------------------------------------------------
(* Claims about the call counts of the TCO, checked under SpecTco *)

\* The count a category carries: calls when present, else executions when
\* present, zero included; 100 when it carries neither.
CountCarried(data) ==
  IF data.calls # <<>> THEN data.calls[1]
  ELSE IF data.executions # <<>> THEN data.executions[1]
  ELSE 100

\* C26: each side of the TCO is its deployment gas plus, over the shared
\* categories, avgGas times the count the category carries (a count of 0
\* included), and avgGas times 100 only for a category without a count.
C26_FallbackOnlyWhenAbsent ==
  cmpOut # <<>> =>
    LET tco == cmpOut[1].tco
        carried(m) == FnSum([k \in CmpShared |->
                               MapGet(m, k).avgGas * CountCarried(MapGet(m, k))])
    IN  /\ tco.rustTCO = cmpA.deploymentGas + carried(cmpA.functionGas)
        /\ tco.solidityTCO = cmpB.deploymentGas + carried(cmpB.functionGas)

----------------------------------------------------------------------------
(* RustCompiler.compile and SolidityCompiler.compile *)

\* What ends a function body: a return with a value or a throw with a message.
Returned(value) == [kind |-> "return", value |-> value]

Thrown(message) == [kind |-> "throw", message |-> message]

\* The CompilationResult of a successful compilation of a binary of the given
\* number of bytes; bytecodeSizeKb = bytes / 1024.
compiled(language, bytes) ==
  [success        |-> TRUE,
   language       |-> language,
   contractName   |-> NameA,
   bytecodeLen    |-> 2 * bytes,
   bytecodeSizeKb |-> RatNorm(bytes, 1024),
   abi            |-> language = "solidity",
   errors         |-> <<>>]

\* The CompilationResult built in the catch block of compile.
failed(language, message) ==
  [success        |-> FALSE,
   language       |-> language,
   contractName   |-> "unknown",
   bytecodeLen    |-> 0,
   bytecodeSizeKb |-> RatZero,
   abi            |-> FALSE,
   errors         |-> <<message>>]

\* What RustCompiler.compile finds: the project directory, cargo, the wasm32
\* target, the outcome of rustup target add and of cargo build, the .wasm file
\* (<<>> when there is none, else its size in bytes) and cargo stylus check.
RustEnvs ==
  {e \in [project : BOOLEAN, cargo : BOOLEAN, wasmTarget : BOOLEAN,
          rustupAdd : BOOLEAN, build : BOOLEAN,
          wasm : {<<>>} \cup {<<b>> : b \in 1..MaxBytes}, stylusCheck : BOOLEAN] :
     /\ e.build => (e.project /\ e.cargo /\ (e.wasmTarget \/ e.rustupAdd))
     /\ e.stylusCheck => e.cargo
     /\ e.wasm # <<>> => e.project}

\* The try block of RustCompiler.compile.
rustTry(e) ==
  IF ~e.project THEN Thrown("Rust project not found")
  ELSE IF ~e.cargo THEN Thrown("Cargo is not installed")
  ELSE IF ~e.wasmTarget /\ ~e.rustupAdd THEN Thrown("rustup target add failed")
  ELSE IF ~e.build THEN Thrown("cargo build failed")
  ELSE IF e.wasm = <<>> THEN Thrown("WASM file not found")
  ELSE Returned(compiled("rust", e.wasm[1]))

\* compile without its catch block.
rustCompile_uncaught(e) == rustTry(e)

\* RustCompiler.compile: what the try block throws becomes a failed result.
rustCompile(e) ==
  IF rustTry(e).kind = "throw"
  THEN Returned(failed("rust", rustTry(e).message))
  ELSE rustTry(e)

\* What SolidityCompiler.compile finds: solc, the solc-js module, the
\* contracts directory, .sol files in it, the outcome of the compiler, and
\* the binary of the first contract of its output (<<>> when the output has
\* no contract, else its size in bytes, 0 for an interface).
SolidityEnvs ==
  {e \in [solc : BOOLEAN, solcJs : BOOLEAN, dir : BOOLEAN, solFiles : BOOLEAN,
          compileOk : BOOLEAN, bin : {<<>>} \cup {<<b>> : b \in 0..MaxBytes}] :
     /\ e.solFiles => e.dir
     /\ e.compileOk => (e.solFiles /\ (e.solc \/ e.solcJs))
     /\ e.bin # <<>> => e.compileOk}

\* compileWithSolc and compileWithSolcJs: the same checks after the compiler
\* was found, solc-js being loaded with require first.
solidityTry(e) ==
  IF ~e.solc /\ ~e.solcJs THEN Thrown("Cannot find module 'solc'")
  ELSE IF ~e.dir THEN Thrown("Solidity contracts not found")
  ELSE IF ~e.solFiles THEN Thrown("No Solidity files found")
  ELSE IF ~e.compileOk THEN Thrown("compiler error")
  ELSE IF e.bin = <<>> THEN Thrown("Cannot read properties of undefined")
  ELSE Returned(compiled("solidity", e.bin[1]))

\* SolidityCompiler.compile: what the try block throws becomes a failed result.
solidityCompile(e) ==
  IF solidityTry(e).kind = "throw"
  THEN Returned(failed("solidity", solidityTry(e).message))
  ELSE solidityTry(e)

\* One call of compile of the adapter of language l, in the environment env.
CompilerCall(l) ==
  /\ pc = l
  /\ LET out == IF l = "rust" THEN rustCompile(env) ELSE solidityCompile(env)
         res == IF out.kind = "return" THEN <<out.value>> ELSE <<>>
     IN  /\ rustResult' = IF l = "rust" THEN res ELSE rustResult
         /\ solidityResult' = IF l = "solidity" THEN res ELSE solidityResult
         /\ steps' = steps \o <<<<l, "start">>, <<l, out.kind>>>>
  /\ pc' = "idle"
  /\ UNCHANGED <<cliVars, exitCode, cmpVars, rustProfile, solidityProfile, callVars,
                 obsVars, auxVars>>

InitCompile ==
  /\ cmpA = <<>>
  /\ cmpB = <<>>
  /\ cmpOut = <<>>
  /\ cmpAgain = <<>>
  /\ clock = 0
  /\ rustResult = <<>>
  /\ solidityResult = <<>>
  /\ rustProfile = <<>>
  /\ solidityProfile = <<>>
  /\ probe = "idle"
  /\ network = <<>>
  /\ blockNumber = 0
  /\ deploymentGas = 0
  /\ timer = [l \in Languages |-> "unset"]
  /\ txSent = [l \in Languages |-> 0]
  /\ timerHit = [l \in Languages |-> FALSE]
  /\ probeRejected = [l \in Languages |-> FALSE]
  /\ MeasIdle
  /\ StoreIdle
  /\ options = <<>>
  /\ outputs = {}
  /\ steps = <<>>
  /\ exitCode = <<>>
  /\ \/ pc = "rust" /\ env \in RustEnvs
     \/ pc = "solidity" /\ env \in SolidityEnvs

NextCompile == \E l \in Languages : CompilerCall(l)

SpecCompile == InitCompile /\ [][NextCompile]_vars

----------------------------------------------------------------------------
(* Claims about the compilers, checked under SpecCompile *)

\* The adapter of language l was called and returned.
Compiled(l) == steps # <<>> /\ steps[1][1] = l /\ (IF l = "rust" THEN rustResult ELSE solidityResult) # <<>>

\* Something the compilation needs is missing or failed.
CompileFailure(l) ==
  IF l = "rust"
  THEN \/ ~env.project
       \/ ~env.cargo
       \/ ~env.wasmTarget /\ ~env.rustupAdd
       \/ ~env.build
       \/ env.wasm = <<>>
  ELSE \/ ~env.solc /\ ~env.solcJs
       \/ ~env.dir
       \/ ~env.solFiles
       \/ ~env.compileOk
       \/ env.bin = <<>>

\* C27: compile never throws; every failure gives a result with success
\* false, an empty bytecode, bytecodeSizeKb 0 and errors that are not empty,
\* and a result with success true carries the language of its adapter.
C27_CompilersNeverThrow ==
  /\ \A i \in 1..Len(steps) : steps[i][2] # "throw"
  /\ \A l \in Languages :
       (steps # <<>> /\ steps[1][1] = l) =>
         /\ Compiled(l)
         /\ LET r == IF l = "rust" THEN rustResult[1] ELSE solidityResult[1]
            IN  /\ CompileFailure(l) => ~r.success
                /\ ~r.success =>
                     /\ r.bytecodeLen = 0
                     /\ r.bytecodeSizeKb = RatZero
                     /\ Len(r.errors) > 0
                /\ r.success => r.language = l

\* The Rust adapter returned a failure because cargo is missing, with its one
\* error message.
C27_Witness ==
  /\ Compiled("rust")
  /\ env.project /\ ~env.cargo
  /\ ~rustResult[1].success
  /\ rustResult[1].errors = <<"Cargo is not installed">>

----------------------------------------------------------------------------
(* Claims about getLatest with a contract name, checked under SpecStore *)

\* C28: getLatest(name) answers null or a snapshot whose contractName is
\* name itself, never the snapshot of another contract.
C28_LatestOfThatContract ==
  (/\ Answered("getLatest")
   /\ opResult[1].arg # <<>>
   /\ opResult[1].arg[1] # <<>>
   /\ opResult[1].found) =>
    opResult[1].value[1].contractName = opResult[1].arg[1]

============================================================================
